---- MODULE Spec2Model ----
(***************************************************************************)
(* A model of dk154_mock: the simulated telescope (MockTelescope), the     *)
(* instrument wheels (MockDfosc), the two line-protocol dispatch callbacks *)
(* (MockAscolServer.ascol_callback, MockDfoscServer.dfosc_callback) and    *)
(* the thread-per-connection transport (MockTCPServer).                    *)
(*                                                                         *)
(* Conventions.                                                            *)
(*  - Time is the wall clock time.time() in whole seconds ("now").  One    *)
(*    handler reads the clock at one instant.                              *)
(*  - Python None is the empty tuple << >>; a present value v is <<v>>.    *)
(*  - A method is an operator from the object (a record with the fields of *)
(*    the class, leading underscore dropped) to a result record            *)
(*    [t, ret, exc]: the object after the call, the returned value and the *)
(*    class name of the exception raised ("" when the call returns).       *)
(*    Assignments made before a raise stay in t, as in Python.             *)
(*  - A telescope-protocol frame is the token list of command.split(); an  *)
(*    instrument-protocol frame is the character list of the stripped      *)
(*    line.  A reply is the token list that is space-joined on the wire.   *)
(***************************************************************************)
EXTENDS Integers, Sequences, FiniteSets, TLC

\* ------------------------------------------------------------------ bounds

\* time.time() when the observatory is constructed (any value far above
\* every duration: the timers start at 0.0, long expired).
StartTime == 1000
\* Number of clock advances explored in one behaviour.
MaxTicks == 3

\* ------------------------------------------------------- program constants

LOGIN_TIMEOUT == 120
FLAP_TIME == 8
DOME_SLIT_TIME == 8
FOCUS_TIME == 3
\* Dome angles are counted in fifths of a degree, the arc the dome turns in
\* one second at DOME_MOVE_RATE (0.2 degrees per second).
DOME_MOVE_RATE == 1
DOME_PARKED_POSITION == 10
MAX_AUTO_DOME_OFFSET == 5
SLEW_RATE == 1
WHEEL_TIME == 20
SKY_FLIP_TIME == 10

\* ------------------------------------------------------------------ values

None == << >>
Some(v) == <<v>>
IsNone(o) == o = << >>
Val(o) == o[1]

Abs(x) == IF x < 0 THEN -x ELSE x

\* x degrees in dome units.
Deg(x) == 5 * x

Ret(t, v) == [t |-> t, ret |-> v, exc |-> ""]
Raise(t, e) == [t |-> t, ret |-> None, exc |-> e]
Raised(r) == r.exc # ""

\* Keys of MockTelescope.loaded_parameters; an absent key maps to None.
LPKeys ==
    {"ra", "dec", "tel_pos", "wheel_a_pos", "wheel_b_pos", "cassegrain_flap",
     "mirror_flap", "dome_slit_state", "dome_delta", "old_dome_pos",
     "focus_position", "focus_moving_positive"}

\* ------------------------------------------------------- sky coordinates

\* astropy's SkyCoord, in whole degrees.  The model keeps every pointing on
\* one meridian, where the great-circle separation is the declination
\* difference.
Separation(c1, c2) ==
    CASE c1.ra = c2.ra -> Abs(c1.dec - c2.dec)

\* The pointing of __init__ (alt 89, az 1 at La Silla) as an ICRS coordinate.
InitCoord == [ra |-> 120, dec |-> -30]

\* get_waypoint_formula defines the inner waypoint_formula and never returns
\* it: the call evaluates to None for every pair of coordinates.
get_waypoint_formula(c1, c2) == None

\* The inner waypoint_formula(f), f = dt / slew_time, on the model's meridian.
waypoint_formula(w, dt, slew_time) ==
    [ra |-> w.c1.ra,
     dec |-> w.c1.dec + (dt * (w.c2.dec - w.c1.dec)) \div slew_time]

\* ------------------------------------------------------------ MockTelescope

TelescopeInit ==
    [remote_state |-> "0",
     safety_relay_state |-> "0",
     tel_state |-> "05",
     shutter_pos |-> "0",
     wheel_a_pos |-> "0",
     wheel_a_state |-> "04",
     wheel_a_starttime |-> 0,
     wheel_b_pos |-> "3",
     wheel_b_state |-> "04",
     wheel_b_starttime |-> 0,
     skycoord |-> InitCoord,
     ra |-> InitCoord.ra,
     dec |-> InitCoord.dec,
     slew_waypoint_formula |-> None,
     slew_time |-> None,
     tel_pos |-> "0",
     tel_on |-> TRUE,
     tel_stopped |-> TRUE,
     tel_slewing |-> FALSE,
     tel_flipping |-> FALSE,
     tel_parking |-> FALSE,
     slew_starttime |-> 0,
     flip_starttime |-> 0,
     logged_in |-> FALSE,
     login_time |-> 0,
     flap_state |-> [cassegrain |-> "04", mirror |-> "04"],
     flap_starttime |-> [cassegrain |-> 0, mirror |-> 0],
     dome_slit_state |-> "04",
     dome_slit_starttime |-> 0,
     az |-> Deg(1),
     dome_state |-> "00",
     dome_position |-> Deg(DOME_PARKED_POSITION),
     dome_auto |-> FALSE,
     dome_moving |-> FALSE,
     dome_parking |-> FALSE,
     dome_stopped |-> TRUE,
     dome_move_time |-> None,
     dome_init_starttime |-> 0,
     dome_move_starttime |-> 0,
     focus_pos |-> Some(0),
     focus_state |-> "00",
     focus_starttime |-> 0,
     loaded_parameters |-> [k \in LPKeys |-> None]]

\* dict.pop(key, None) / dict.pop(key): the dict without the key.
Pop(t, key) == [t EXCEPT !.loaded_parameters[key] = None]
Load(t, key, v) == [t EXCEPT !.loaded_parameters[key] = Some(v)]

\* update_login_status with the timeout compared inclusively.
update_login_status_inclusive(t, now_) ==
    LET dt == now_ - t.login_time
    IN  IF dt <= LOGIN_TIMEOUT
        THEN [t EXCEPT !.logged_in = TRUE]
        ELSE [t EXCEPT !.logged_in = FALSE]

update_login_status(t, now_) ==
    LET dt == now_ - t.login_time
    IN  IF dt < LOGIN_TIMEOUT
        THEN [t EXCEPT !.logged_in = TRUE]
        ELSE [t EXCEPT !.logged_in = FALSE]

\* "return self._logged_in", on the telescope after update_login_status.
ReturnLoggedIn(u) == Ret(u, u.logged_in)

get_login_status(t, now_) == ReturnLoggedIn(update_login_status(t, now_))

\* With a fixed obstime in _altaz the transform gives the same ICRS
\* coordinate on every call.
update_radec_from_altaz(t) ==
    [t EXCEPT !.ra = t.skycoord.ra, !.dec = t.skycoord.dec]

\* The azimuth astropy gives the coordinate of __init__ at time now_, in
\* dome units: set at one degree just north of the zenith at the start, the
\* point drifts westward through north by about a fifth of a degree (one
\* dome unit) per second.
SkyAz(now_) == (Deg(1) - (now_ - StartTime)) % Deg(360)

\* Recomputes _altaz, _alt and _az from _skycoord, which no method changes
\* after __init__.
update_altaz_from_radec(t, now_) == [t EXCEPT !.az = SkyAz(now_)]

\* The check that ends set_telescope_position, after its three stores.
CheckPosition(u, tel_pos) ==
    IF tel_pos \notin {"0", "1"} THEN Raise(u, "ValueError") ELSE Ret(u, None)

set_telescope_position(t, ra, dec, tel_pos) ==
    CheckPosition(Load(Load(Load(t, "ra", ra), "dec", dec), "tel_pos", tel_pos),
                  tel_pos)

go_telescope_radec(t, now_) ==
    LET ra == t.loaded_parameters["ra"]
        dec == t.loaded_parameters["dec"]
        tel_pos == t.loaded_parameters["tel_pos"]
        u == Pop(Pop(Pop(t, "ra"), "dec"), "tel_pos")
    IN  IF IsNone(ra) \/ IsNone(dec) \/ IsNone(tel_pos)
        THEN Raise(u, "ValueError")
        ELSE
          LET new_skycoord == [ra |-> Val(ra), dec |-> Val(dec)]
              v == [u EXCEPT
                      !.slew_waypoint_formula =
                          get_waypoint_formula(t.skycoord, new_skycoord),
                      !.slew_time =
                          Some(Separation(t.skycoord, new_skycoord) \div SLEW_RATE),
                      !.tel_stopped = FALSE]
          IN  IF Val(tel_pos) = t.tel_pos
              THEN Ret([v EXCEPT !.tel_slewing = TRUE,
                                 !.slew_starttime = now_], None)
              \* self.FLIP_TIME is no attribute of the class (SKY_FLIP_TIME
              \* is): the read raises before telescope_skyflip is called.
              ELSE Raise([v EXCEPT !.tel_slewing = FALSE], "AttributeError")

\* The tail of _update_telescope_state (lines 265-270).
UpdateCoords(t, now_) ==
    IF t.tel_stopped THEN update_radec_from_altaz(t)
    ELSE update_altaz_from_radec(t, now_)

\* The "if self._tel_slewing:" block of _update_telescope_state.
UpdateSlewing(t, now_) ==
    LET dt == now_ - t.slew_starttime
        st == Val(t.slew_time)
    IN  IF st = 0 THEN Raise(t, "ZeroDivisionError")
        ELSE IF dt < 0 THEN Raise(t, "ValueError")
        ELSE IF dt < st
        THEN IF IsNone(t.slew_waypoint_formula)
             THEN Raise(t, "ValueError")
             ELSE LET c == waypoint_formula(Val(t.slew_waypoint_formula), dt, st)
                  IN  Ret([t EXCEPT !.ra = c.ra, !.dec = c.dec,
                                    !.tel_state =
                                       IF t.tel_parking THEN "10" ELSE "07"],
                          None)
        ELSE
          LET ra == t.loaded_parameters["ra"]
              dec == t.loaded_parameters["dec"]
              tel_pos == t.loaded_parameters["tel_pos"]
          IN  IF IsNone(ra) THEN Raise(t, "KeyError")
              ELSE IF IsNone(dec) THEN Raise(Pop(t, "ra"), "KeyError")
              ELSE IF IsNone(tel_pos)
              THEN Raise(Pop(Pop(t, "ra"), "dec"), "KeyError")
              ELSE
                LET u == [Pop(Pop(Pop(t, "ra"), "dec"), "tel_pos") EXCEPT
                            !.ra = Val(ra), !.dec = Val(dec),
                            !.tel_pos = Val(tel_pos),
                            !.tel_slewing = FALSE]
                IN  IF t.tel_parking
                    THEN Ret([u EXCEPT !.tel_parking = FALSE,
                                       !.tel_on = FALSE,
                                       !.tel_stopped = TRUE,
                                       !.tel_state = "00"], None)
                    ELSE Ret([u EXCEPT !.tel_state = "05"], None)

\* The "if self._tel_flipping:" block: the flags after it.
UpdateFlipping(t, now_) ==
    IF ~t.tel_flipping THEN t
    ELSE IF now_ - t.flip_starttime < SKY_FLIP_TIME
    THEN [t EXCEPT !.tel_state = "09"]
    ELSE LET u == [t EXCEPT !.tel_flipping = FALSE]
         IN  IF now_ - t.slew_starttime < Val(t.slew_time)
             THEN [u EXCEPT !.tel_slewing = TRUE]
             ELSE u

\* The coordinate update after the slewing block, unless that block raised.
AfterSlewing(r, now_) ==
    IF Raised(r) THEN r ELSE Ret(UpdateCoords(r.t, now_), None)

\* AfterFlipping with a final else that reports sky slew while a target is
\* loaded.
AfterFlipping_pending(u, now_) ==
    IF u.tel_slewing THEN AfterSlewing(UpdateSlewing(u, now_), now_)
    ELSE Ret(UpdateCoords([u EXCEPT !.tel_state =
                              IF IsNone(u.loaded_parameters["ra"])
                              THEN "05" ELSE "07"], now_), None)

\* The slewing block, or the final else (sky track), on the telescope u the
\* flipping block leaves.
AfterFlipping(u, now_) ==
    IF u.tel_slewing THEN AfterSlewing(UpdateSlewing(u, now_), now_)
    ELSE Ret(UpdateCoords([u EXCEPT !.tel_state = "05"], now_), None)

update_telescope_state(t, now_) ==
    IF t.tel_stopped
    THEN Ret(UpdateCoords([t EXCEPT !.tel_state =
                                IF t.tel_on THEN "04" ELSE "00"], now_), None)
    ELSE AfterFlipping(UpdateFlipping(t, now_), now_)

\* "return self._ra, self._dec, self._tel_pos" after the update r.
ReturnPosition(r) ==
    IF Raised(r) THEN r ELSE Ret(r.t, <<r.t.ra, r.t.dec, r.t.tel_pos>>)

get_telescope_position(t, now_) ==
    ReturnPosition(update_telescope_state(t, now_))

\* "return self._tel_state" after the update r.
ReturnState(r) == IF Raised(r) THEN r ELSE Ret(r.t, r.t.tel_state)

get_telescope_state(t, now_) == ReturnState(update_telescope_state(t, now_))

\* go_wheel_a starting the timer before it looks for the target.
go_wheel_a_unchecked(t, now_) ==
    LET wheel_a_pos == t.loaded_parameters["wheel_a_pos"]
        u == [Pop(t, "wheel_a_pos") EXCEPT !.wheel_a_starttime = now_]
    IN  IF IsNone(wheel_a_pos) THEN Raise(u, "ValueError")
        ELSE Ret([u EXCEPT !.wheel_a_pos = Val(wheel_a_pos)], None)

go_wheel_a(t, now_) ==
    LET wheel_a_pos == t.loaded_parameters["wheel_a_pos"]
        u == Pop(t, "wheel_a_pos")
    IN  IF IsNone(wheel_a_pos) THEN Raise(u, "ValueError")
        ELSE Ret([u EXCEPT !.wheel_a_starttime = now_,
                           !.wheel_a_pos = Val(wheel_a_pos)], None)

\* _update_wheel_a_state with the transit time compared inclusively.
update_wheel_a_state_inclusive(t, now_) ==
    IF now_ - t.wheel_a_starttime <= WHEEL_TIME
    THEN [t EXCEPT !.wheel_a_state = "03"]
    ELSE [t EXCEPT !.wheel_a_state = "04"]

update_wheel_a_state(t, now_) ==
    IF now_ - t.wheel_a_starttime < WHEEL_TIME
    THEN [t EXCEPT !.wheel_a_state = "03"]
    ELSE [t EXCEPT !.wheel_a_state = "04"]

get_wheel_a_state(t, now_) ==
    LET u == update_wheel_a_state(t, now_) IN Ret(u, u.wheel_a_state)

set_wheel_a_pos(t, wheel_a_pos) == Ret(Load(t, "wheel_a_pos", wheel_a_pos), None)

get_wheel_a_pos(t, now_) ==
    LET u == update_wheel_a_state(t, now_)
    IN  IF u.wheel_a_state # "04" THEN Ret(u, "8") ELSE Ret(u, u.wheel_a_pos)

go_wheel_b(t, now_) ==
    LET wheel_b_pos == t.loaded_parameters["wheel_b_pos"]
        u == Pop(t, "wheel_b_pos")
    IN  IF IsNone(wheel_b_pos) THEN Raise(u, "ValueError")
        ELSE Ret([u EXCEPT !.wheel_b_starttime = now_,
                           !.wheel_b_pos = Val(wheel_b_pos)], None)

set_wheel_b_state(t, now_) ==
    IF now_ - t.wheel_b_starttime < WHEEL_TIME
    THEN [t EXCEPT !.wheel_b_state = "03"]
    ELSE [t EXCEPT !.wheel_b_state = "04"]

get_wheel_b_state(t, now_) ==
    LET u == set_wheel_b_state(t, now_) IN Ret(u, u.wheel_b_state)

set_wheel_b_pos(t, wheel_b_pos) == Ret(Load(t, "wheel_b_pos", wheel_b_pos), None)

get_wheel_b_pos(t, now_) ==
    LET u == set_wheel_b_state(t, now_)
    IN  IF u.wheel_b_state # "04" THEN Ret(u, "7") ELSE Ret(u, u.wheel_b_pos)

set_shutter_pos(t, open_close) ==
    IF open_close \notin {"0", "1"} THEN Raise(t, "ValueError")
    ELSE Ret([t EXCEPT !.shutter_pos = open_close], None)

get_shutter_pos(t) == Ret(t, t.shutter_pos)

\* The two flaps run the same code on their own fields: flap is "cassegrain"
\* or "mirror", and FlapKey is its key in loaded_parameters.
Flaps == {"cassegrain", "mirror"}
FlapKey(flap) == IF flap = "cassegrain" THEN "cassegrain_flap" ELSE "mirror_flap"

\* _update_flap_*_state with the transit time compared inclusively.
update_flap_state_inclusive(t, flap, now_) ==
    LET param == t.loaded_parameters[FlapKey(flap)] IN
    IF IsNone(param) THEN Ret(t, None)
    ELSE IF Val(param) = "stop"
    THEN Ret(Pop([t EXCEPT !.flap_state[flap] = "00"], FlapKey(flap)), None)
    ELSE IF Val(param) \in {"open", "1"}
    THEN IF now_ - t.flap_starttime[flap] <= FLAP_TIME
         THEN Ret([t EXCEPT !.flap_state[flap] = "01"], None)
         ELSE Ret(Pop([t EXCEPT !.flap_state[flap] = "03"], FlapKey(flap)), None)
    ELSE IF Val(param) \in {"close", "0"}
    THEN IF now_ - t.flap_starttime[flap] <= FLAP_TIME
         THEN Ret([t EXCEPT !.flap_state[flap] = "02"], None)
         ELSE Ret(Pop([t EXCEPT !.flap_state[flap] = "04"], FlapKey(flap)), None)
    ELSE Raise(t, "ValueError")

\* _update_flap_cassegrain_state / _update_flap_mirror_state.
update_flap_state(t, flap, now_) ==
    LET param == t.loaded_parameters[FlapKey(flap)] IN
    IF IsNone(param) THEN Ret(t, None)
    ELSE IF Val(param) = "stop"
    THEN Ret(Pop([t EXCEPT !.flap_state[flap] = "00"], FlapKey(flap)), None)
    ELSE IF Val(param) \in {"open", "1"}
    THEN IF now_ - t.flap_starttime[flap] < FLAP_TIME
         THEN Ret([t EXCEPT !.flap_state[flap] = "01"], None)
         ELSE Ret(Pop([t EXCEPT !.flap_state[flap] = "03"], FlapKey(flap)), None)
    ELSE IF Val(param) \in {"close", "0"}
    THEN IF now_ - t.flap_starttime[flap] < FLAP_TIME
         THEN Ret([t EXCEPT !.flap_state[flap] = "02"], None)
         ELSE Ret(Pop([t EXCEPT !.flap_state[flap] = "04"], FlapKey(flap)), None)
    ELSE Raise(t, "ValueError")

move_flap(t, flap, open_close, now_) ==
    update_flap_state(
        [Load(t, FlapKey(flap), open_close) EXCEPT !.flap_starttime[flap] = now_],
        flap, now_)

stop_flap(t, flap, now_) ==
    update_flap_state(Load(t, FlapKey(flap), "stop"), flap, now_)

get_flap_state(t, flap, now_) ==
    LET r == update_flap_state(t, flap, now_) IN
    IF Raised(r) THEN r ELSE Ret(r.t, r.t.flap_state[flap])

set_dome_slit_state(t, now_) ==
    LET param == t.loaded_parameters["dome_slit_state"] IN
    IF IsNone(param) THEN Ret(t, None)
    ELSE IF Val(param) = "stop"
    THEN Ret(Pop([t EXCEPT !.dome_slit_state = "00"], "dome_slit_state"), None)
    ELSE IF Val(param) \in {"open", "1"}
    THEN IF now_ - t.dome_slit_starttime < DOME_SLIT_TIME
         THEN Ret([t EXCEPT !.dome_slit_state = "01"], None)
         ELSE Ret(Pop([t EXCEPT !.dome_slit_state = "03"], "dome_slit_state"),
                  None)
    ELSE IF Val(param) \in {"close", "0"}
    THEN IF now_ - t.dome_slit_starttime < DOME_SLIT_TIME
         THEN Ret([t EXCEPT !.dome_slit_state = "02"], None)
         ELSE Ret(Pop([t EXCEPT !.dome_slit_state = "04"], "dome_slit_state"),
                  None)
    ELSE Raise(t, "ValueError")

move_dome_slit(t, open_close, now_) ==
    set_dome_slit_state(
        [Load(t, "dome_slit_state", open_close)
            EXCEPT !.dome_slit_starttime = now_], now_)

get_dome_slit_state(t, now_) ==
    LET r == set_dome_slit_state(t, now_) IN
    IF Raised(r) THEN r ELSE Ret(r.t, r.t.dome_slit_state)

\* The branch of _update_dome_position for a loaded dome_delta: f is
\* dt / dome_move_time, and old + f * delta is exact in dome units.
UpdateDomeMove(t, now_) ==
    LET dome_delta == Val(t.loaded_parameters["dome_delta"])
        dt == now_ - t.dome_move_starttime
        old_dome_pos == t.loaded_parameters["old_dome_pos"]
    IN  IF ~t.dome_moving THEN Raise(t, "ValueError")
        ELSE IF IsNone(old_dome_pos) THEN Raise(t, "KeyError")
        ELSE IF IsNone(t.dome_move_time) THEN Raise(t, "ValueError")
        ELSE IF Val(t.dome_move_time) = 0 THEN Raise(t, "ZeroDivisionError")
        ELSE IF dt < 0 THEN Raise(t, "ValueError")
        ELSE IF dt < Val(t.dome_move_time)
        THEN Ret([t EXCEPT !.dome_position =
                     (Val(old_dome_pos)
                        + (dt * dome_delta) \div Val(t.dome_move_time))
                     % Deg(360)], None)
        ELSE Ret([Pop(Pop(t, "old_dome_pos"), "dome_delta") EXCEPT
                     !.dome_position =
                         (Val(old_dome_pos) + dome_delta) % Deg(360),
                     !.dome_moving = FALSE,
                     !.dome_move_time = None,
                     !.dome_stopped = IF t.dome_parking THEN TRUE ELSE @,
                     !.dome_parking = FALSE], None)

update_dome_position(t, now_) ==
    IF IsNone(t.loaded_parameters["dome_delta"]) THEN Ret(t, None)
    ELSE UpdateDomeMove(t, now_)

\* _update_dome_state after its call of _update_dome_position, which
\* returned r.
UpdateDomeState(r) ==
    IF Raised(r) THEN r
    ELSE IF r.t.dome_stopped
    THEN IF r.t.dome_moving THEN Raise(r.t, "ValueError")
         ELSE Ret([Pop(r.t, "dome_delta") EXCEPT !.dome_state = "00"], None)
    ELSE IF r.t.dome_moving
    THEN IF IsNone(r.t.loaded_parameters["dome_delta"])
         THEN Raise(r.t, "ValueError")
         ELSE IF r.t.dome_parking
         THEN IF r.t.dome_auto THEN Raise(r.t, "ValueError")
              ELSE Ret([r.t EXCEPT !.dome_state = "08"], None)
         ELSE IF r.t.dome_auto
         THEN Ret([r.t EXCEPT !.dome_state =
                      IF Val(r.t.loaded_parameters["dome_delta"]) < 0
                      THEN "04" ELSE "05"], None)
         ELSE Ret([r.t EXCEPT !.dome_state =
                      IF Val(r.t.loaded_parameters["dome_delta"]) < 0
                      THEN "06" ELSE "07"], None)
    ELSE IF r.t.dome_auto THEN Ret([r.t EXCEPT !.dome_state = "03"], None)
    ELSE Raise(r.t, "ValueError")

update_dome_state(t, now_) == UpdateDomeState(update_dome_position(t, now_))

init_dome(t, now_) ==
    update_dome_state([t EXCEPT !.dome_init_starttime = now_], now_)

auto_dome(t, now_) ==
    update_dome_state([t EXCEPT !.dome_auto = TRUE,
                                !.dome_stopped = FALSE,
                                !.dome_parking = FALSE], now_)

\* stop_dome without "self._dome_auto = False".
stop_dome_keeps_auto(t, now_) ==
    update_dome_state([Pop(t, "dome_delta") EXCEPT
                          !.dome_parking = FALSE,
                          !.dome_moving = FALSE,
                          !.dome_stopped = TRUE,
                          !.dome_move_time = None], now_)

stop_dome(t, now_) ==
    update_dome_state([Pop(t, "dome_delta") EXCEPT
                          !.dome_parking = FALSE,
                          !.dome_moving = FALSE,
                          !.dome_auto = FALSE,
                          !.dome_stopped = TRUE,
                          !.dome_move_time = None], now_)

get_dome_state(t, now_) ==
    LET r == update_dome_state(t, now_) IN
    IF Raised(r) THEN r ELSE Ret(r.t, r.t.dome_state)

\* dome_delta is the signed angle, between -180 and 180 degrees.
set_dome_position(t, dome_pos) ==
    IF dome_pos < 0 \/ dome_pos > Deg(360) THEN Raise(t, "ValueError")
    ELSE Ret(Load(t, "dome_delta",
                  (((dome_pos - t.dome_position) + Deg(180)) % Deg(360))
                     - Deg(180)), None)

\* go_dome_position without the assignment of dome_move_time.
go_dome_position_untimed(t, now_) ==
    IF IsNone(t.loaded_parameters["dome_delta"]) THEN Raise(t, "ValueError")
    ELSE update_dome_state(
            [Load(t, "old_dome_pos", t.dome_position) EXCEPT
                !.dome_moving = TRUE,
                !.dome_move_starttime = now_], now_)

go_dome_position(t, now_) ==
    IF IsNone(t.loaded_parameters["dome_delta"]) THEN Raise(t, "ValueError")
    ELSE update_dome_state(
            [Load(t, "old_dome_pos", t.dome_position) EXCEPT
                !.dome_move_time =
                    Some(Abs(Val(t.loaded_parameters["dome_delta"]))
                            \div DOME_MOVE_RATE),
                !.dome_moving = TRUE,
                !.dome_move_starttime = now_], now_)

\* set_dome_position followed by go_dome_position, r being the former's
\* result.
GoAfterSet(r, now_) == IF Raised(r) THEN r ELSE go_dome_position(r.t, now_)

park_dome(t, now_) ==
    GoAfterSet(set_dome_position([t EXCEPT !.dome_auto = FALSE,
                                           !.dome_stopped = FALSE,
                                           !.dome_parking = TRUE],
                                 Deg(DOME_PARKED_POSITION)), now_)

\* The _update_dome_state that ends _check_dome_position, after a move that
\* the check started and that returned g.
UpdateDomeAfterGo(g, now_) ==
    IF Raised(g) THEN g ELSE update_dome_state(g.t, now_)

\* _check_dome_position after its call of _update_telescope_state, which
\* returned r.
CheckDomePosition(r, now_) ==
    IF Raised(r) THEN r
    ELSE IF r.t.dome_auto
            /\ Abs(r.t.az - r.t.dome_position) > Deg(MAX_AUTO_DOME_OFFSET)
    THEN UpdateDomeAfterGo(GoAfterSet(set_dome_position(r.t, r.t.az), now_),
                           now_)
    ELSE update_dome_state(r.t, now_)

check_dome_position(t, now_) ==
    CheckDomePosition(update_telescope_state(t, now_), now_)

get_dome_position(t, now_) ==
    LET r == check_dome_position(t, now_) IN
    IF Raised(r) THEN r ELSE Ret(r.t, r.t.dome_position)

\* pos >= self._focus_pos raises TypeError once _focus_pos is None; the
\* target has been stored by then.
set_focus_position(t, pos) ==
    IF IsNone(t.focus_pos)
    THEN Raise(Load(t, "focus_position", pos), "TypeError")
    ELSE Ret(Load(Load(t, "focus_position", pos),
                  "focus_moving_positive", pos >= Val(t.focus_pos)), None)

\* The message for a missing target is built and never raised: _focus_pos
\* becomes whatever loaded_parameters.get returns, None included.
go_focus_position(t, now_) ==
    Ret([t EXCEPT !.focus_starttime = now_,
                  !.focus_pos = t.loaded_parameters["focus_position"]], None)

get_focus_pos(t) == Ret(t, t.focus_pos)

\* The second pop has no default: KeyError when only the target is loaded.
set_focus_state(t, now_) ==
    IF IsNone(t.loaded_parameters["focus_position"]) THEN Ret(t, None)
    ELSE IF now_ - t.focus_starttime < FOCUS_TIME
    THEN IF IsNone(t.loaded_parameters["focus_moving_positive"])
         THEN Raise(t, "ValueError")
         ELSE Ret([t EXCEPT !.focus_state =
                       IF Val(t.loaded_parameters["focus_moving_positive"])
                       THEN "01" ELSE "02"], None)
    ELSE IF IsNone(t.loaded_parameters["focus_moving_positive"])
    THEN Raise(Pop(t, "focus_position"), "KeyError")
    ELSE Ret([Pop(Pop(t, "focus_position"), "focus_moving_positive")
                 EXCEPT !.focus_state = "00"], None)

get_focus_state(t, now_) ==
    LET r == set_focus_state(t, now_) IN
    IF Raised(r) THEN r ELSE Ret(r.t, r.t.focus_state)

\* ---------------------------------------------------------- MockAscolServer

\* The list without the pointing commands.
REQUIRE_LOGIN_wheels == {"WASP", "WAGP", "WBSP", "WBGP"}

REQUIRE_LOGIN == {"TSRA", "TGRA", "WASP", "WAGP", "WBSP", "WBGP"}

\* The keys of responders_lookup.
responders_lookup ==
    {"GLRE", "GLSR", "GLLG", "GLLL", "GLUT", "GLSD", "TGRA", "TEON", "TEST",
     "TEFL", "TEPA", "TSRA", "TERS", "DOAM", "DOPA", "DOIN", "DOSO", "DOST",
     "DORA", "DOPO", "DORS", "FCOP", "FCST", "FCRS", "FMOP", "FMST", "FMRS",
     "TRRD", "WASP", "WAGP", "WARP", "WARS", "WBSP", "WBGP", "WBRP", "WBRS",
     "FOSA", "FOSR", "FOGA", "FOGR", "FORA", "FOMI", "FOMA", "FORS", "SHOP",
     "SHRP", "MEBE", "MEBN", "MEBW", "METW", "MEHU", "METE", "MEWS", "MEPR",
     "MEAP", "MEPY", "DOSS"}

ERR_TEL_OFF == <<"ERR [TEL OFF]">>
ERR_NO_LOGIN == <<"ERR [NO LOGIN]">>
ERR_NO_RESPONDER == <<"ERR [NO RESPONDER]">>

\* f"ERR [{type(e)}]"
ErrClass(e) ==
    CASE e = "ValueError" -> <<"ERR [<class 'ValueError'>]">>
      [] e = "KeyError" -> <<"ERR [<class 'KeyError'>]">>
      [] e = "AttributeError" -> <<"ERR [<class 'AttributeError'>]">>
      [] e = "NotImplementedError" -> <<"ERR [<class 'NotImplementedError'>]">>
      [] e = "TypeError" -> <<"ERR [<class 'TypeError'>]">>
      [] e = "IndexError" -> <<"ERR [<class 'IndexError'>]">>
      [] e = "ZeroDivisionError" -> <<"ERR [<class 'ZeroDivisionError'>]">>

ErrTokens ==
    {ERR_TEL_OFF, ERR_NO_LOGIN, ERR_NO_RESPONDER, <<"ERR">>}
    \cup {ErrClass(e) : e \in {"ValueError", "KeyError", "AttributeError",
                               "NotImplementedError", "TypeError", "IndexError",
                               "ZeroDivisionError"}}

\* A reply that is a protocol error token rather than a data response.
IsErr(reply) == Len(reply) = 1 /\ reply \in ErrTokens

\* dk154_control.utils.ra_hms_to_deg: "HHMMSS.S" (the number hhmmss) to
\* degrees.
ra_hms_to_deg(tok) ==
    ((tok \div 10000) * 3600 + ((tok \div 100) % 100) * 60 + (tok % 100)) \div 240

\* dk154_control.utils.dec_dms_to_deg: "+DDMMSS.S" (the signed number
\* ddmmss) to degrees.
dec_dms_to_deg(tok) ==
    LET a == Abs(tok)
        deg == ((a \div 10000) * 3600 + ((a \div 100) % 100) * 60 + (a % 100))
                  \div 3600
    IN  IF tok < 0 THEN -deg ELSE deg

\* trrd_response's ra_str: Angle(ra).hms as "HHMMSS.SS".
RaStr(ra) ==
    LET sec == ra * 240
    IN  (sec \div 3600) * 10000 + ((sec \div 60) % 60) * 100 + (sec % 60)

\* trrd_response's dec_str: Angle(dec).dms as "+DDMMSS.SS".
DecStr(dec) == dec * 10000

\* A handler that returns what the telescope method returned, after it, as
\* the tuple (value, "---"); an exception of the method passes through.
Answer(r) == IF Raised(r) THEN r ELSE Ret(r.t, <<r.ret, "---">>)
\* A handler that acknowledges with ("1", "---") when the method returns.
Ack(r) == IF Raised(r) THEN r ELSE Ret(r.t, <<"1", "---">>)
\* A handler that acknowledges with "1" when the method returns.
Ack1(r) == IF Raised(r) THEN r ELSE Ret(r.t, <<"1">>)

glre_response(t, command, now_) == Ret(t, <<t.remote_state, "---">>)
gslr_response(t, command, now_) == Ret(t, <<t.safety_relay_state, "---">>)
gllg_response(t, command, now_) ==
    Ret([t EXCEPT !.login_time = now_], <<"1", "---">>)
glll_response(t, command, now_) == Raise(t, "NotImplementedError")
teon_response(t, command, now_) == Raise(t, "NotImplementedError")
\* MockTelescope has telescope_stop, no stop_telescope.
test_response(t, command, now_) == Raise(t, "AttributeError")
tefl_response(t, command, now_) == Raise(t, "NotImplementedError")
tepa_response(t, command, now_) == Raise(t, "NotImplementedError")

tsra_response(t, command, now_) ==
    IF Len(command) # 4 THEN Raise(t, "ValueError")
    ELSE Ack1(set_telescope_position(t, ra_hms_to_deg(command[2]),
                                     dec_dms_to_deg(command[3]), command[4]))

tgra_response(t, command, now_) == Ack1(go_telescope_radec(t, now_))

\* "return ra_str, dec_str, tel_pos, '---'" on the position r.
FormatPosition(r) ==
    IF Raised(r) THEN r
    ELSE Ret(r.t, <<RaStr(r.ret[1]), DecStr(r.ret[2]), r.ret[3], "---">>)

trrd_response(t, command, now_) == FormatPosition(get_telescope_position(t, now_))

ters_response(t, command, now_) == Answer(get_telescope_state(t, now_))

wasp_response(t, command, now_) ==
    IF Len(command) # 2 THEN Raise(t, "ValueError")
    ELSE Ack(set_wheel_a_pos(t, command[2]))
wagp_response(t, command, now_) == Ack(go_wheel_a(t, now_))
warp_response(t, command, now_) == Answer(get_wheel_a_pos(t, now_))
wars_response(t, command, now_) == Answer(get_wheel_a_state(t, now_))

wbsp_response(t, command, now_) ==
    IF Len(command) # 2 THEN Raise(t, "ValueError")
    ELSE Ack(set_wheel_b_pos(t, command[2]))
wbgp_response(t, command, now_) == Ack(go_wheel_b(t, now_))
wbrp_response(t, command, now_) == Answer(get_wheel_b_pos(t, now_))
wbrs_response(t, command, now_) == Answer(get_wheel_b_state(t, now_))

shop_response(t, command, now_) ==
    IF Len(command) # 2 THEN Raise(t, "ValueError")
    ELSE Ack(set_shutter_pos(t, command[2]))
shrp_response(t, command, now_) == Answer(get_shutter_pos(t))

\* fcop_response / fmop_response, fcst_response / fmst_response and
\* fcrs_response / fmrs_response, by the flap they address.
FlapOf(code) ==
    IF code \in {"FCOP", "FCST", "FCRS"} THEN "cassegrain" ELSE "mirror"
fxop_response(t, flap, command, now_) ==
    IF Len(command) # 2 THEN Raise(t, "ValueError")
    ELSE Ack(move_flap(t, flap, command[2], now_))
fxst_response(t, flap, command, now_) == Ack(stop_flap(t, flap, now_))
fxrs_response(t, flap, command, now_) == Answer(get_flap_state(t, flap, now_))

\* float(focus_str) on the focus tokens the clients send here.
float(str) ==
    CASE str = "0" -> Some(0) [] str = "5" -> Some(5) [] str = "-3" -> Some(-3)
      [] OTHER -> None
\* f"{focus_pos:.02f}" on the same values.
Format02f(x) ==
    CASE x = 0 -> "0.00" [] x = 5 -> "5.00" [] x = -3 -> "-3.00"

fosa_response(t, command, now_) ==
    IF Len(command) # 2 \/ IsNone(float(command[2]))
    THEN Raise(t, "ValueError")
    ELSE Ack(set_focus_position(t, Val(float(command[2]))))
\* set_focus_position() is called without its argument.
fosr_response(t, command, now_) ==
    IF Len(command) # 2 \/ IsNone(float(command[2]))
    THEN Raise(t, "ValueError")
    ELSE Raise(t, "TypeError")
\* foga_response and fogr_response return nothing.
foga_response(t, command, now_) == go_focus_position(t, now_)
fogr_response(t, command, now_) == go_focus_position(t, now_)
\* Formatting None raises TypeError.
fora_response(t, command, now_) ==
    IF IsNone(t.focus_pos) THEN Raise(t, "TypeError")
    ELSE Ret(t, <<Format02f(Val(t.focus_pos))>>)
fors_response(t, command, now_) ==
    LET r == get_focus_state(t, now_) IN
    IF Raised(r) THEN r ELSE Ret(r.t, <<r.ret>>)

doam_response(t, command, now_) == Ack(auto_dome(t, now_))
dopa_response(t, command, now_) == Ack(park_dome(t, now_))
doin_response(t, command, now_) == Ack(init_dome(t, now_))
dost_response(t, command, now_) == Ack(stop_dome(t, now_))
\* f"{dome_position:.2f}", as the number of hundredths of a degree.
DomeStr(dome_position) == dome_position * 20
dora_response(t, command, now_) ==
    LET r == get_dome_position(t, now_) IN
    IF Raised(r) THEN r ELSE Ret(r.t, <<DomeStr(r.ret), "---">>)
dopo_response(t, command, now_) == dora_response(t, command, now_)
dors_response(t, command, now_) == Answer(get_dome_state(t, now_))

doso_response(t, command, now_) ==
    IF Len(command) # 2 THEN Raise(t, "ValueError")
    ELSE Ack(move_dome_slit(t, command[2], now_))
doss_response(t, command, now_) == Answer(get_dome_slit_state(t, now_))

\* The meteo handlers return fixed readings.
me_response(code, t) ==
    Ret(t, CASE code = "MEBE" -> <<"100.0", "1", "---">>
             [] code = "MEBN" -> <<"200.0", "1", "---">>
             [] code = "MEBW" -> <<"400.0", "1", "---">>
             [] code = "METW" -> <<"250.0", "1", "---">>
             [] code = "MEHU" -> <<"10", "1", "---">>
             [] code = "METE" -> <<"12.5", "1", "---">>
             [] code = "MEWS" -> <<"5.0", "1", "---">>
             [] code = "MEPR" -> <<"0", "1", "---">>
             [] code = "MEAP" -> <<"678.4", "1", "---">>
             [] code = "MEPY" -> <<"5.0", "1", "---">>)

\* responders_lookup[code](command), for the handlers of the telescope
\* pointing, the wheels, the shutter, the session and the meteo readings.
responder(code, t, command, now_) ==
    CASE code = "GLRE" -> glre_response(t, command, now_)
      [] code = "GLSR" -> gslr_response(t, command, now_)
      [] code = "GLLG" -> gllg_response(t, command, now_)
      [] code = "GLLL" -> glll_response(t, command, now_)
      [] code = "TEON" -> teon_response(t, command, now_)
      [] code = "TEST" -> test_response(t, command, now_)
      [] code = "TEFL" -> tefl_response(t, command, now_)
      [] code = "TEPA" -> tepa_response(t, command, now_)
      [] code = "TSRA" -> tsra_response(t, command, now_)
      [] code = "TGRA" -> tgra_response(t, command, now_)
      [] code = "TRRD" -> trrd_response(t, command, now_)
      [] code = "TERS" -> ters_response(t, command, now_)
      [] code = "WASP" -> wasp_response(t, command, now_)
      [] code = "WAGP" -> wagp_response(t, command, now_)
      [] code = "WARP" -> warp_response(t, command, now_)
      [] code = "WARS" -> wars_response(t, command, now_)
      [] code = "WBSP" -> wbsp_response(t, command, now_)
      [] code = "WBGP" -> wbgp_response(t, command, now_)
      [] code = "WBRP" -> wbrp_response(t, command, now_)
      [] code = "WBRS" -> wbrs_response(t, command, now_)
      [] code = "SHOP" -> shop_response(t, command, now_)
      [] code = "SHRP" -> shrp_response(t, command, now_)
      [] code \in {"FCOP", "FMOP"} ->
            fxop_response(t, FlapOf(code), command, now_)
      [] code \in {"FCST", "FMST"} ->
            fxst_response(t, FlapOf(code), command, now_)
      [] code \in {"FCRS", "FMRS"} ->
            fxrs_response(t, FlapOf(code), command, now_)
      [] code = "DOSO" -> doso_response(t, command, now_)
      [] code = "DOAM" -> doam_response(t, command, now_)
      [] code = "DOPA" -> dopa_response(t, command, now_)
      [] code = "DOIN" -> doin_response(t, command, now_)
      [] code = "DOST" -> dost_response(t, command, now_)
      [] code = "DORA" -> dora_response(t, command, now_)
      [] code = "DOPO" -> dopo_response(t, command, now_)
      [] code = "DORS" -> dors_response(t, command, now_)
      [] code = "FOSA" -> fosa_response(t, command, now_)
      [] code = "FOSR" -> fosr_response(t, command, now_)
      [] code = "FOGA" -> foga_response(t, command, now_)
      [] code = "FOGR" -> fogr_response(t, command, now_)
      [] code = "FORA" -> fora_response(t, command, now_)
      [] code = "FORS" -> fors_response(t, command, now_)
      [] code = "DOSS" -> doss_response(t, command, now_)
      [] code \in {"MEBE", "MEBN", "MEBW", "METW", "MEHU", "METE", "MEWS",
                   "MEPR", "MEAP", "MEPY"} -> me_response(code, t)

check_login_state(t, now_) == get_login_status(t, now_)

\* The try/except around responder(command): r is the handler's result.
TryResponder(r) ==
    IF Raised(r) THEN Ret(r.t, ErrClass(r.exc)) ELSE Ret(r.t, r.ret)

\* Lines 45-67: g is the login check (g.ret, on the telescope g.t), TRUE
\* for a command code that needs no login.
AfterLoginGate(g, command_code, command, now_) ==
    IF ~g.ret THEN Ret(g.t, ERR_NO_LOGIN)
    ELSE IF command_code \in responders_lookup
    THEN TryResponder(responder(command_code, g.t, command, now_))
    ELSE Ret(g.t, ERR_NO_RESPONDER)

\* ascol_callback with the login gate ahead of the power check.
ascol_callback_login_first(t, command, now_) ==
    IF Len(command) = 0 THEN Raise(t, "IndexError")
    ELSE IF command[1] \in REQUIRE_LOGIN /\ ~check_login_state(t, now_).ret
    THEN Ret(check_login_state(t, now_).t, ERR_NO_LOGIN)
    ELSE IF t.tel_state = "00" THEN Ret(t, ERR_TEL_OFF)
    ELSE AfterLoginGate(Ret(t, TRUE), command[1], command, now_)

\* ascol_callback on the telescope of the observatory: the result's ret is
\* the returned reply; exc is set when the callback itself raises, as
\* command.split()[0] does on a line that is empty once stripped.
ascol_callback(t, command, now_) ==
    IF Len(command) = 0 THEN Raise(t, "IndexError")
    ELSE IF t.tel_state = "00" THEN Ret(t, ERR_TEL_OFF)
    ELSE AfterLoginGate(IF command[1] \in REQUIRE_LOGIN
                        THEN check_login_state(t, now_)
                        ELSE Ret(t, TRUE),
                        command[1], command, now_)

\* ---------------------------------------------------------------- MockDfosc

DFOSC_WHEEL_TIME == 12
MAX_POSITION == 320000
INTEGER_STEP == 40000

\* The attributes of MockDfosc, one entry per wheel: _grism_ready is
\* ready["grism"], _aperture_position is position["aperture"], and so on.
Wheels == {"grism", "aperture", "filter"}

DfoscInit ==
    [ready |-> [w \in Wheels |-> TRUE],
     position |-> [grism |-> 120000, aperture |-> 240000, filter |-> 160000],
     move_start |-> [w \in Wheels |-> 0]]

\* grism_move_position, aperture_move_position, filter_move_position: the
\* same body on the attributes of wheel w.
move_position(d, w, pos, perf_) ==
    Ret([d EXCEPT !.move_start[w] = perf_,
                  !.position[w] = IF pos >= MAX_POSITION
                                  THEN pos % MAX_POSITION ELSE pos], None)

\* get_grism_position, get_aperture_position, get_filter_position.
get_position(d, w) == Ret(d, d.position[w])

\* set_grism_state, set_apeture_state, set_filter_state.
set_state(d, w, perf_) ==
    [d EXCEPT !.ready[w] = ~(perf_ - d.move_start[w] < DFOSC_WHEEL_TIME)]

\* get_grism_state, get_aperture_state, get_filter_state.
get_state(d, w, perf_) ==
    Ret(set_state(d, w, perf_), set_state(d, w, perf_).ready[w])

\* ---------------------------------------------------------- MockDfoscServer

UpperCase == <<"A", "B", "C", "D", "E", "F", "G", "H", "I", "J", "K", "L", "M",
               "N", "O", "P", "Q", "R", "S", "T", "U", "V", "W", "X", "Y", "Z">>
LowerCase == <<"a", "b", "c", "d", "e", "f", "g", "h", "i", "j", "k", "l", "m",
               "n", "o", "p", "q", "r", "s", "t", "u", "v", "w", "x", "y", "z">>
DigitChars == <<"0", "1", "2", "3", "4", "5", "6", "7", "8", "9">>

IndexOf(seq, c) == CHOOSE i \in 1..Len(seq) : seq[i] = c
InSeq(seq, c) == \E i \in 1..Len(seq) : seq[i] = c

\* str.lower(), character by character.
LowerChar(c) == IF InSeq(UpperCase, c) THEN LowerCase[IndexOf(UpperCase, c)] ELSE c
Lower(str) == [i \in 1..Len(str) |-> LowerChar(str[i])]

IsDigit(c) == InSeq(DigitChars, c)
DigitVal(c) == IndexOf(DigitChars, c) - 1

RECURSIVE NatOf(_)
NatOf(str) ==
    IF Len(str) = 0 THEN 0
    ELSE 10 * NatOf(SubSeq(str, 1, Len(str) - 1)) + DigitVal(str[Len(str)])

\* int(str): the value as <<n>>, or None where int raises ValueError.
IntOf(str) ==
    LET signed == Len(str) > 0 /\ str[1] \in {"+", "-"}
        body == IF signed THEN Tail(str) ELSE str
    IN  IF Len(body) = 0 \/ \E i \in 1..Len(body) : ~IsDigit(body[i])
        THEN None
        ELSE Some(IF signed /\ str[1] = "-" THEN -NatOf(body) ELSE NatOf(body))

RECURSIVE DigitsOf(_)
DigitsOf(n) ==
    IF n < 10 THEN <<DigitChars[n + 1]>>
    ELSE Append(DigitsOf(n \div 10), DigitChars[(n % 10) + 1])

RECURSIVE ZeroPad(_, _)
ZeroPad(str, width) == IF Len(str) >= width THEN str ELSE ZeroPad(<<"0">> \o str, width)

\* f"{n:06d}"
Format06d(n) ==
    IF n < 0 THEN <<"-">> \o ZeroPad(DigitsOf(-n), 5)
    ELSE ZeroPad(DigitsOf(n), 6)

\* command[2:]
From2(command) == SubSeq(command, 3, Len(command))

WholeWords ==
    {<<"g">>, <<"a">>, <<"f">>,
     <<"g", "i", "d", "f", "o", "c">>,
     <<"a", "i", "d", "f", "o", "c">>,
     <<"f", "i", "d", "f", "o", "c">>}

\* The keys of MockDfoscServer.responders_lookup.  The dict literal names
\* "aidfoc" twice and "gidfoc" never.
dfosc_responders_lookup ==
    {<<l, o>> : l \in {"g", "a", "f"}, o \in {"i", "g", "m", "p", "n", "q", "x"}}
    \cup {<<"g">>, <<"a">>, <<"f">>,
          <<"a", "i", "d", "f", "o", "c">>,
          <<"f", "i", "d", "f", "o", "c">>}

DFOSC_ERR == <<"ERR">>

\* The wheel a responder code addresses, by its first letter.
WheelOf(letter) ==
    CASE letter = "g" -> "grism" [] letter = "a" -> "aperture"
      [] letter = "f" -> "filter"

\* gg_response, ag_response, fg_response: absolute move.
xg_response(d, w, command, perf_) ==
    LET pos == IntOf(From2(command))
    IN  IF IsNone(pos) THEN Raise(d, "ValueError")
        ELSE Ret(move_position(d, w, Val(pos), perf_).t, command)

\* gm_response, am_response, fm_response: relative move.
xm_response(d, w, command, perf_) ==
    LET rel_pos == IntOf(From2(command))
    IN  IF IsNone(rel_pos) THEN Raise(d, "ValueError")
        ELSE Ret(move_position(d, w, get_position(d, w).ret + Val(rel_pos),
                               perf_).t, command)

\* gp_response, ap_response, fp_response: position query.
xp_response(d, w, command) == Ret(d, Format06d(get_position(d, w).ret))

\* gn_response, an_response, fn_response: quick preset.
xn_response(d, w, command, perf_) ==
    LET n == IntOf(<<command[2]>>)
    IN  IF IsNone(n) THEN Raise(d, "ValueError")
        ELSE Ret(move_position(d, w, Val(n) * INTEGER_STEP, perf_).t, command)

\* gx_response, ax_response, fx_response: zero.
xx_response(d, w, command, perf_) ==
    Ret(move_position(d, w, 0, perf_).t, command)

\* g_response, a_response, f_response call check_grism_ready,
\* check_aperture_ready, check_filter_ready: MockDfosc has none of them.
ready_response(d, w, command) == Raise(d, "AttributeError")

\* responders_lookup[code](command).
dfosc_responder(code, d, command, perf_) ==
    LET w == WheelOf(code[1])
    IN  IF Len(code) = 1 THEN ready_response(d, w, command)
        ELSE IF Len(code) > 2 THEN Raise(d, "NotImplementedError")
        ELSE CASE code[2] = "g" -> xg_response(d, w, command, perf_)
               [] code[2] = "m" -> xm_response(d, w, command, perf_)
               [] code[2] = "p" -> xp_response(d, w, command)
               [] code[2] = "n" -> xn_response(d, w, command, perf_)
               [] code[2] = "x" -> xx_response(d, w, command, perf_)
               [] code[2] \in {"i", "q"} -> Raise(d, "NotImplementedError")

\* The responder code without the digit rule: the first two characters,
\* lower-cased.
responder_code_plain(command) ==
    IF Lower(command) \in WholeWords THEN Ret(command, command)
    ELSE
      LET code2 == SubSeq(command, 1, IF Len(command) < 2 THEN Len(command) ELSE 2)
      IN  IF Len(code2) < 2 THEN Raise(command, "IndexError")
          ELSE Ret(command, Lower(code2))

\* The responder code dfosc_callback derives from the stripped line; exc is
\* IndexError where responder_code[1] does not exist.
responder_code(command) ==
    IF Lower(command) \in WholeWords THEN Ret(command, command)
    ELSE
      LET code2 == SubSeq(command, 1, IF Len(command) < 2 THEN Len(command) ELSE 2)
      IN  IF Len(code2) < 2 THEN Raise(command, "IndexError")
          ELSE IF IsDigit(code2[2])
          THEN Ret(command, Lower(<<code2[1], "N">>))
          ELSE Ret(command, Lower(code2))

\* The try/except around response_function(command): r is its result.
TryResponse(r) ==
    IF Raised(r) THEN Ret(r.t, DFOSC_ERR) ELSE Ret(r.t, Append(r.ret, "\n"))

\* Lines 39-57, for the responder code c.
Lookup(c, d, command, perf_) ==
    IF Raised(c) THEN Raise(d, c.exc)
    ELSE IF c.ret \in dfosc_responders_lookup
    THEN TryResponse(dfosc_responder(c.ret, d, command, perf_))
    ELSE Ret(d, DFOSC_ERR)

dfosc_callback(d, command, perf_) ==
    Lookup(responder_code(command), d, command, perf_)

\* A telescope that is switched off: stopped, with _tel_on False, as
\* _update_telescope_state reports it.
TelescopeOff == [TelescopeInit EXCEPT !.tel_on = FALSE, !.tel_state = "00"]

\* ----------------------------------------------------------------- MockCcd3

READ_TIME == 30
CAMERA_READY == 0
CAMERA_READING == 2
CAMERA_EXPOSING_SHUTTER_OPEN == 67108865

EXPECTED_PARAMETERS ==
    {"async", "CCD3.exposure", "CCD3.IMAGETYP", "CCD3.OBJECT", "WASA.filter",
     "WASB.filter"}

Ccd3Init ==
    [ccd_state |-> 0,
     exposure_starttime |-> 0,
     loaded_parameters |-> [k \in EXPECTED_PARAMETERS |-> None],
     exposure_started |-> FALSE]

\* set_ccd_state with the start of the exposure at start_.
SetCcdStateFrom(c, start_, now_) ==
    LET exptime == c.loaded_parameters["CCD3.exposure"]
        dt == now_ - start_
    IN  IF ~IsNone(exptime) /\ c.exposure_started
        THEN IF dt < Val(exptime) + READ_TIME
             THEN [c EXCEPT !.ccd_state =
                      IF dt < Val(exptime) THEN CAMERA_EXPOSING_SHUTTER_OPEN
                      ELSE CAMERA_READING]
             ELSE [c EXCEPT !.exposure_started = FALSE,
                            !.loaded_parameters =
                                [k \in EXPECTED_PARAMETERS |-> None],
                            !.ccd_state = 0]
        ELSE c

\* No method assigns _exposure_starttime after __init__: dt is the time
\* since the epoch.
set_ccd_state(c, now_) == SetCcdStateFrom(c, c.exposure_starttime, now_)

get_ccd_state(c, now_) ==
    Ret(set_ccd_state(c, now_), set_ccd_state(c, now_).ccd_state)

\* parameters maps each name of the query to its value, None when absent.
set_exposure_parameters(c, parameters) ==
    IF \E k \in DOMAIN parameters :
          ~IsNone(parameters[k]) /\ k \notin EXPECTED_PARAMETERS
    THEN Raise(c, "ValueError")
    ELSE Ret([c EXCEPT !.loaded_parameters =
                 [k \in EXPECTED_PARAMETERS |->
                    IF k \in DOMAIN parameters /\ ~IsNone(parameters[k])
                    THEN parameters[k] ELSE @[k]]], None)

\* write_mock_data is True in the observatory: gen_dark reads
\* loaded_parameters["CCD3.exposure"] after exposure_started is set.  The
\* synthesis and writing of the frame are taken to succeed.
take_exposure(c, filepath) ==
    IF IsNone(c.loaded_parameters["CCD3.exposure"])
    THEN Raise([c EXCEPT !.exposure_started = TRUE], "KeyError")
    ELSE Ret([c EXCEPT !.exposure_started = TRUE], None)

\* ----------------------------------------------------------- MockCcd3Server

\* The names a query string carries here.
QKeys == {"CCD3.exposure", "bogus", "ccd", "fe"}
FLOAT_PARAMETERS == {"CCD3.exposure"}

\* The outcome of do_GET: the telescope and the camera as it leaves them,
\* the status lines it wrote, the state in the body of a 200, and the
\* exception that ended it, if any.
Http(t, c, responses, state, exc) ==
    [tel |-> t, ccd3 |-> c, responses |-> responses, state |-> state,
     exc |-> exc]

\* The loop over parse_qs: float() of the FLOAT_PARAMETERS.
ParseQuery(query) ==
    [k \in QKeys |->
        IF k \in FLOAT_PARAMETERS /\ ~IsNone(query[k])
        THEN float(Val(query[k])) ELSE query[k]]
ParseFails(query) ==
    \E k \in FLOAT_PARAMETERS :
        ~IsNone(query[k]) /\ IsNone(float(Val(query[k])))

\* The tail of do_GET: send_response(200) and the body, after whatever
\* was sent before.
Send200(t, r, sent) ==
    Http(t, r.t, Append(sent, 200), Some(r.ret), "")

\* create_output_header reads the telescope: position, shutter and wheels.
create_output_header(t, now_) ==
    LET r == get_telescope_position(t, now_) IN
    IF Raised(r) THEN r
    ELSE Ret(get_wheel_b_pos(get_wheel_a_pos(r.t, now_).t, now_).t, None)

\* The expose branch from create_output_header on, h being its result and
\* sent the status lines written so far.
ExposeAfterHeader(h, c, filepath, sent, now_) ==
    IF Raised(h) THEN Http(h.t, c, sent, None, h.exc)
    ELSE IF Raised(take_exposure(c, filepath))
    THEN Http(h.t, take_exposure(c, filepath).t, sent, None,
              take_exposure(c, filepath).exc)
    ELSE Send200(h.t, get_ccd_state(take_exposure(c, filepath).t, now_), sent)

\* The expose branch with the fe parameter looked at after the exposure:
\* the file path of a request without fe is None.
expose_fe_late(t, c, parameters, now_) ==
    LET s == set_shutter_pos(t, "1")
        h == create_output_header(s.t, now_)
    IN  IF Raised(h) THEN Http(h.t, c, << >>, None, h.exc)
        ELSE IF Raised(take_exposure(c, parameters["fe"]))
        THEN Http(h.t, take_exposure(c, parameters["fe"]).t, << >>, None,
                  take_exposure(c, parameters["fe"]).exc)
        ELSE IF IsNone(parameters["fe"])
        THEN Http(h.t, take_exposure(c, parameters["fe"]).t, <<400>>, None, "")
        ELSE Send200(h.t,
                     get_ccd_state(take_exposure(c, parameters["fe"]).t, now_),
                     IF parameters["ccd"] # Some("CCD3")
                     THEN <<400>> ELSE << >>)

\* The expose branch: ccd_parameters has no "CCD3.SHUTTER", the shutter
\* parameter defaults to "0", "1" for the telescope.  The 400 for the ccd
\* parameter is not followed by a return.
expose(t, c, parameters, now_) ==
    LET s == set_shutter_pos(t, "1") IN
    IF IsNone(parameters["fe"]) THEN Http(s.t, c, <<400>>, None, "")
    ELSE ExposeAfterHeader(create_output_header(s.t, now_), c,
                           Val(parameters["fe"]),
                           IF parameters["ccd"] # Some("CCD3")
                           THEN <<400>> ELSE << >>, now_)

\* The mset branch, r being the result of set_exposure_parameters.
MsetWith(t, r, now_) ==
    IF Raised(r) THEN Http(t, r.t, << >>, None, r.exc)
    ELSE Send200(t, get_ccd_state(r.t, now_), << >>)

mset(t, c, parameters, now_) ==
    MsetWith(t, set_exposure_parameters(c, parameters), now_)

\* do_GET on a request [path, query]: path is the list of the segments of
\* the URL path, and cmd its last segment.
do_GET(t, c, req, now_) ==
    IF Len(req.path) = 0 \/ req.path[1] # "api"
    THEN Http(t, c, <<400>>, None, "")
    ELSE IF ParseFails(req.query) THEN Http(t, c, << >>, None, "ValueError")
    ELSE LET cmd == req.path[Len(req.path)] IN
         CASE cmd = "get" -> Send200(t, get_ccd_state(c, now_), << >>)
           [] cmd = "mset" -> mset(t, c, ParseQuery(req.query), now_)
           [] cmd = "expose" -> expose(t, c, ParseQuery(req.query), now_)
           [] OTHER -> Http(t, c, <<400>>, None, "")

\* -------------------------------------------------------------------- state

VARIABLES
    now,      \* time.time(), whole seconds
    ticks,    \* clock advances so far
    tel,      \* MockDk154.telescope
    dfosc,    \* MockDk154.dfosc
    conns,    \* the connections of the two MockTCPServers, by peer
    last,     \* the reply just written to a socket, with its frame
    client,   \* what the clients have sent and been told so far
    ccd3,     \* MockDk154.ccd3
    http      \* the camera request just handled, with what was sent back

vars == <<now, ticks, tel, dfosc, conns, last, client, ccd3, http>>

Conns == {1, 2}

\* time.perf_counter(): a monotonic clock of arbitrary epoch, read here as
\* the wall clock.
perf_counter(now_) == now_

ConnInit ==
    [server |-> "",      \* the protocol of the server the peer connected to
     status |-> "new",   \* new, open (a thread runs its loop), closed
     peer |-> "open",    \* the peer's end of the connection
     pc |-> "recv",      \* where its thread is: recv, call, send, done
     msg |-> << >>,      \* message, once received
     reply |-> << >>,    \* reply, once computed
     exc |-> "",         \* the exception the callback raised for message
     owed |-> 0,         \* frames received less replies written
     failed |-> FALSE]   \* some command on this connection has failed

ClientInit ==
    [gllg |-> None,     \* time of the last acknowledged GLLG
     passed |-> None,   \* time a gated command last passed the login gate
     tsra |-> None,     \* target of the last acknowledged TSRA
     tgra |-> None,     \* [at, target] of the last acknowledged TGRA
     seen |-> 0,        \* furthest phase TERS has reported since the last TGRA
     polls |-> 0,       \* TERS reports since the last TGRA, counted up to 2
     wasp |-> None,     \* position of the last acknowledged WASP
     wagp |-> None,     \* [at, pos] of the last acknowledged WAGP
     wbsp |-> None,
     wbgp |-> None,
     moved |-> [dev \in {"cassegrain", "mirror", "slit"} |-> None],
                        \* [at, token] of the last acknowledged move or stop
     fpos |-> Some(0),  \* focus position by the commands sent so far
     fosa |-> None,     \* [p, prev] of an acknowledged FOSA not yet started
     foga |-> None,     \* [at, p, prev] of the FOGA that started it
     mset |-> None,     \* exposure time of the last mset answered 200
     expose |-> None]   \* [at, exptime] of the last expose answered 200

\* No camera request has been handled at the present instant.
NoHttp == [req |-> [path |-> << >>, query |-> [k \in QKeys |-> None]],
           responses |-> << >>, state |-> None, exc |-> ""]

\* No reply has been written at the present instant.
NoLast == [conn |-> 0, frame |-> << >>, reply |-> << >>, exc |-> ""]

Init ==
    /\ now = StartTime
    /\ ticks = 0
    /\ tel = TelescopeInit
    /\ dfosc = DfoscInit
    /\ conns = [c \in Conns |-> ConnInit]
    /\ last = NoLast
    /\ client = ClientInit
    /\ ccd3 = Ccd3Init
    /\ http = NoHttp

\* ---------------------------------------------------------------- transport

\* What the client of the camera notes on a request answered with one 200.
ObserveHttp(cl, req, now_) ==
    LET cmd == req.path[Len(req.path)] IN
    CASE cmd = "mset" ->
            [cl EXCEPT !.mset = float(Val(req.query["CCD3.exposure"])),
                       !.expose = None]
      [] cmd = "expose" ->
            [cl EXCEPT !.expose = IF IsNone(cl.mset) THEN None
                                  ELSE Some([at |-> now_,
                                             exptime |-> Val(cl.mset)])]
      [] OTHER -> cl

\* Ccd3RequestHandler.do_GET has handled req with outcome r.
GetWith(req, r) ==
    /\ tel' = r.tel
    /\ ccd3' = r.ccd3
    /\ http' = [req |-> req, responses |-> r.responses, state |-> r.state,
                exc |-> r.exc]
    /\ client' = IF r.responses = <<200>> THEN ObserveHttp(client, req, now)
                 ELSE client

\* The camera server handles one GET request.
Get(req) ==
    /\ GetWith(req, do_GET(tel, ccd3, req, now))
    /\ UNCHANGED <<now, ticks, dfosc, conns, last>>

\* reply_cb(message) of the server a connection belongs to, on the shared
\* observatory: [tel, dfosc, ret, exc].
OnTelescope(r, d) == [tel |-> r.t, dfosc |-> d, ret |-> r.ret, exc |-> r.exc]
OnDfosc(r, t) == [tel |-> t, dfosc |-> r.t, ret |-> r.ret, exc |-> r.exc]

reply_cb(server, t, d, frame, now_) ==
    IF server = "ascol"
    THEN OnTelescope(ascol_callback(t, frame, now_), d)
    ELSE OnDfosc(dfosc_callback(d, frame, perf_counter(now_)), t)

\* The try/except of listen_to_connection: reply_cb(message).encode("ascii"),
\* or "ERR" when the callback raises or returns None (None has no encode).
TransportReply(r) == IF Raised(r) \/ IsNone(r.ret) THEN <<"ERR">> ELSE r.ret

\* The order of the phases of a pointing: sky-flip, slewing, tracking.
Phase(state) ==
    CASE state = "09" -> 1 [] state = "07" -> 2 [] state = "05" -> 3
      [] OTHER -> 0

\* The flap or slit a command code addresses.
MovedBy(code) ==
    CASE code \in {"FCOP", "FCST"} -> "cassegrain"
      [] code \in {"FMOP", "FMST"} -> "mirror"
      [] code = "DOSO" -> "slit"

Max(a, b) == IF a > b THEN a ELSE b
Min(a, b) == IF a < b THEN a ELSE b

\* What the client of the telescope protocol notes on an acknowledged
\* command.
ObserveAck(cl, frame, reply, now_) ==
    LET code == frame[1]
    IN  CASE code = "GLLG" -> [cl EXCEPT !.gllg = Some(now_)]
          [] code = "TSRA" ->
               [cl EXCEPT !.tsra = Some([ra |-> frame[2], dec |-> frame[3],
                                         tel_pos |-> frame[4]])]
          [] code = "TGRA" ->
               [cl EXCEPT !.tgra = Some([at |-> now_, target |-> Val(cl.tsra)])]
          [] code = "TERS" ->
               [cl EXCEPT !.seen = Max(@, Phase(reply[1])),
                          !.polls = Min(@ + 1, 2)]
          [] code = "WASP" -> [cl EXCEPT !.wasp = Some(frame[2])]
          [] code = "WAGP" ->
               [cl EXCEPT !.wagp = Some([at |-> now_, pos |-> Val(cl.wasp)])]
          [] code = "WBSP" -> [cl EXCEPT !.wbsp = Some(frame[2])]
          [] code = "WBGP" ->
               [cl EXCEPT !.wbgp = Some([at |-> now_, pos |-> Val(cl.wbsp)])]
          [] code \in {"FCOP", "FMOP", "DOSO"} ->
               [cl EXCEPT !.moved[MovedBy(code)] =
                              Some([at |-> now_, token |-> frame[2]])]
          [] code = "FOSA" ->
               [cl EXCEPT !.fosa = IF IsNone(cl.fpos) THEN None
                                   ELSE Some([p |-> Val(float(frame[2])),
                                              prev |-> Val(cl.fpos)])]
          [] code \in {"FCST", "FMST"} ->
               [cl EXCEPT !.moved[MovedBy(code)] =
                              Some([at |-> now_, token |-> "stop"])]
          [] OTHER -> cl

\* A focus go command acts whatever its reply: it starts the target of the
\* FOSA before it, and without one the client no longer knows the position.
ObserveGo(cl, now_) ==
    IF IsNone(cl.fosa)
    THEN [cl EXCEPT !.foga = None, !.fpos = None]
    ELSE [cl EXCEPT !.foga = Some([at |-> now_, p |-> Val(cl.fosa).p,
                                   prev |-> Val(cl.fosa).prev]),
                    !.fpos = Some(Val(cl.fosa).p),
                    !.fosa = None]

\* What the client notes on any reply to a frame with a command code: a
\* TGRA, acknowledged or not, starts a new record of reported phases, and a
\* gated command answered with anything but the no-login token has passed
\* the login gate.
ObserveSent(cl, frame, reply, now_) ==
    LET code == frame[1]
        c1 == IF code = "TGRA" THEN [cl EXCEPT !.seen = 0, !.polls = 0]
              ELSE IF code \in {"FCOP", "FMOP", "DOSO", "FCST", "FMST"}
              THEN [cl EXCEPT !.moved[MovedBy(code)] = None]
              ELSE IF code \in {"FOSA", "FOSR"}
              THEN [cl EXCEPT !.fosa = None, !.foga = None]
              ELSE IF code \in {"FOGA", "FOGR"}
              THEN ObserveGo(cl, now_)
              ELSE cl
    IN  IF code \in {"TSRA", "TGRA", "WASP", "WAGP", "WBSP", "WBGP"}
           /\ reply # ERR_NO_LOGIN
        THEN [c1 EXCEPT !.passed = Some(now_)]
        ELSE c1

Observe(cl, frame, reply, now_) ==
    IF Len(frame) = 0 THEN cl
    ELSE IF IsErr(reply) THEN ObserveSent(cl, frame, reply, now_)
    ELSE ObserveAck(ObserveSent(cl, frame, reply, now_), frame, reply, now_)

\* The except clause of listen_to_connection catches whatever the callback
\* or encode raises: nothing escapes the pass of the loop that calls them.
Escapes_uncaught(r) == Raised(r) \/ IsNone(r.ret)

Escapes(r) == FALSE

\* The command whose callback result is r has failed.
Failed(r) == Raised(r) \/ IsNone(r.ret) \/ IsErr(r.ret)

\* MockTCPServer.start hands each accepted connection to a thread of its own
\* and returns to sock.accept() at once, whatever the connections cs do.
\* (accept itself times out after 600 s without a new connection, longer
\* than any behaviour explored here.)
Accepting_inline(cs, server) ==
    \A o \in Conns : ~(cs[o].server = server /\ cs[o].status = "open")

Accepting(cs, server) == TRUE

\* MockTCPServer.start: accept a connection and start its thread.
Accept(c, server) ==
    /\ conns[c].status = "new"
    /\ Accepting(conns, server)
    /\ conns' = [conns EXCEPT ![c].server = server, ![c].status = "open"]
    /\ UNCHANGED <<now, ticks, tel, dfosc, ccd3, http, last, client>>

\* One pass of the loop of listen_to_connection on a non-empty message,
\* run without another thread in between: recv, reply_cb, sendall.
\* conn.sendall(reply): the reply to frame is on the wire.
Written(c, frame, reply, exc) ==
    /\ last' = [conn |-> c, frame |-> frame, reply |-> reply, exc |-> exc]
    /\ client' = IF conns[c].server = "ascol"
                 THEN Observe(client, frame, reply, now)
                 ELSE client

\* The callback has run with result r: the observatory is as it left it.
Called(r) ==
    /\ tel' = r.tel
    /\ dfosc' = r.dfosc

\* An exception that leaves the loop leaves "with conn", which closes the
\* socket, and ends the thread.
Left(conn) == [conn EXCEPT !.status = "closed", !.pc = "done"]

ServeWith(c, frame, r) ==
    /\ Called(r)
    /\ IF Escapes(r)
       THEN /\ conns' = [conns EXCEPT ![c] = Left(@)]
            /\ UNCHANGED <<last, client>>
       ELSE /\ conns' = [conns EXCEPT ![c].failed = @ \/ Failed(r)]
            /\ Written(c, frame, TransportReply(r), r.exc)

Serve(c, frame) ==
    /\ conns[c].status = "open"
    /\ conns[c].peer = "open"
    /\ conns[c].pc = "recv"
    /\ ServeWith(c, frame, reply_cb(conns[c].server, tel, dfosc, frame, now))
    /\ UNCHANGED <<now, ticks, ccd3, http>>

\* The same loop, statement by statement.
\* message = conn.recv(1024), not empty.
Recv(c, frame) ==
    /\ conns[c].status = "open"
    /\ conns[c].peer = "open"
    /\ conns[c].pc = "recv"
    /\ conns' = [conns EXCEPT ![c].msg = frame, ![c].pc = "call",
                              ![c].owed = @ + 1]
    /\ UNCHANGED <<now, ticks, tel, dfosc, ccd3, http, last, client>>

\* The peer closes its end.
PeerClose(c) ==
    /\ conns[c].status = "open"
    /\ conns[c].peer = "open"
    /\ conns' = [conns EXCEPT ![c].peer = "closed"]
    /\ UNCHANGED <<now, ticks, tel, dfosc, ccd3, http, last, client>>

\* conn.recv(1024) returns b"": break, and "with conn" closes the socket.
RecvEmpty(c) ==
    /\ conns[c].status = "open"
    /\ conns[c].peer = "closed"
    /\ conns[c].pc = "recv"
    /\ conns' = [conns EXCEPT ![c] = Left(@)]
    /\ UNCHANGED <<now, ticks, tel, dfosc, ccd3, http, last, client>>

\* reply = self.reply_cb(message).encode("ascii"), in its try/except.
CallWith(c, r) ==
    /\ Called(r)
    /\ conns' = IF Escapes(r)
                THEN [conns EXCEPT ![c] = Left(@)]
                ELSE [conns EXCEPT ![c].pc = "send",
                                   ![c].reply = TransportReply(r),
                                   ![c].exc = r.exc,
                                   ![c].failed = @ \/ Failed(r)]

Call(c) ==
    /\ conns[c].status = "open"
    /\ conns[c].pc = "call"
    /\ CallWith(c, reply_cb(conns[c].server, tel, dfosc, conns[c].msg, now))
    /\ UNCHANGED <<now, ticks, ccd3, http, last, client>>

\* conn.sendall(reply): the bytes reach the peer while its end is open.
Send(c) ==
    /\ conns[c].status = "open"
    /\ conns[c].pc = "send"
    /\ conns' = [conns EXCEPT ![c].pc = "recv", ![c].msg = << >>,
                              ![c].reply = << >>, ![c].exc = "",
                              ![c].owed = IF Len(conns[c].reply) > 0
                                          THEN @ - 1 ELSE @]
    /\ IF conns[c].peer = "open"
       THEN Written(c, conns[c].msg, conns[c].reply, conns[c].exc)
       ELSE UNCHANGED <<last, client>>
    /\ UNCHANGED <<now, ticks, tel, dfosc, ccd3, http>>

\* ascol_callback on a TSRA frame, statement by statement, for threads that
\* share the telescope.  The power check and the login gate.
GateWith(c, g) ==
    /\ tel' = IF tel.tel_state = "00" THEN tel ELSE g.t
    /\ conns' = IF tel.tel_state = "00"
                THEN [conns EXCEPT ![c].pc = "send", ![c].reply = ERR_TEL_OFF,
                                   ![c].failed = TRUE]
                ELSE IF ~g.ret
                THEN [conns EXCEPT ![c].pc = "send", ![c].reply = ERR_NO_LOGIN,
                                   ![c].failed = TRUE]
                ELSE [conns EXCEPT ![c].pc = "ra"]

Gate(c) ==
    /\ conns[c].status = "open"
    /\ conns[c].pc = "call"
    /\ conns[c].server = "ascol"
    /\ Len(conns[c].msg) = 4
    /\ conns[c].msg[1] = "TSRA"
    /\ GateWith(c, check_login_state(tel, now))
    /\ UNCHANGED <<now, ticks, dfosc, ccd3, http, last, client>>

\* self.loaded_parameters["ra"] = ra
StoreRa(c) ==
    /\ conns[c].status = "open"
    /\ conns[c].pc = "ra"
    /\ tel' = Load(tel, "ra", ra_hms_to_deg(conns[c].msg[2]))
    /\ conns' = [conns EXCEPT ![c].pc = "dec"]
    /\ UNCHANGED <<now, ticks, dfosc, ccd3, http, last, client>>

\* self.loaded_parameters["dec"] = dec
StoreDec(c) ==
    /\ conns[c].status = "open"
    /\ conns[c].pc = "dec"
    /\ tel' = Load(tel, "dec", dec_dms_to_deg(conns[c].msg[3]))
    /\ conns' = [conns EXCEPT ![c].pc = "pos"]
    /\ UNCHANGED <<now, ticks, dfosc, ccd3, http, last, client>>

\* self.loaded_parameters["tel_pos"] = tel_pos, the check of tel_pos, the
\* handler's return "1" and the callback's try/except and return.
StorePosWith(c, r) ==
    /\ tel' = r.t
    /\ conns' = [conns EXCEPT ![c].pc = "send", ![c].reply = r.ret,
                              ![c].failed = @ \/ IsErr(r.ret)]

StorePos(c) ==
    /\ conns[c].status = "open"
    /\ conns[c].pc = "pos"
    /\ StorePosWith(c, TryResponder(Ack1(CheckPosition(
           Load(tel, "tel_pos", conns[c].msg[4]), conns[c].msg[4]))))
    /\ UNCHANGED <<now, ticks, dfosc, ccd3, http, last, client>>

\* The clock advances by d seconds.
Tick(d) ==
    /\ ticks < MaxTicks
    /\ now' = now + d
    /\ ticks' = ticks + 1
    /\ last' = NoLast
    /\ http' = NoHttp
    /\ UNCHANGED <<tel, dfosc, ccd3, conns, client>>

\* ------------------------------------------------- the login specification

\* One telescope-protocol client; the clock advances by one second or by
\* one second less than the login timeout.
TargetA == <<"TSRA", 80000, -400000, "0">>
LoginFrames ==
    {<<"GLLG">>, TargetA, <<"TGRA">>, <<"WASP", "5">>, <<"WAGP">>,
     <<"WBGP">>, <<"SHRP">>, <<"XXXX">>}
LoginSteps == {1, LOGIN_TIMEOUT - 1}

NextLogin ==
    \/ Accept(1, "ascol")
    \/ \E f \in LoginFrames : Serve(1, f)
    \/ \E d \in LoginSteps : Tick(d)

SpecLogin == Init /\ [][NextLogin]_vars

\* ------------------------------------------------------------ login claims

\* The pointing and wheel-motion commands, as a client sends them.
GatedProbes ==
    {TargetA, <<"TGRA">>, <<"WASP", "5">>, <<"WAGP">>, <<"WBSP", "5">>,
     <<"WBGP">>}

\* Commands of every other modelled handler, and an unknown code.
UngatedProbes ==
    {<<"GLLG">>, <<"GLRE">>, <<"GLSR">>, <<"GLLL">>, <<"TEON">>, <<"TEST">>,
     <<"TEFL">>, <<"TEPA">>, <<"TRRD">>, <<"TERS">>, <<"WARP">>, <<"WARS">>,
     <<"WBRP">>, <<"WBRS">>, <<"SHOP", "1">>, <<"SHRP">>, <<"MEBE">>,
     <<"MEPY">>, <<"XXXX">>}

\* The client has logged in and LOGIN_TIMEOUT has not passed since.
LoginValid ==
    ~IsNone(client.gllg) /\ now - Val(client.gllg) < LOGIN_TIMEOUT

\* The reply just written went to a telescope-protocol client.
LastAscol == last.conn # 0 /\ conns[last.conn].server = "ascol"

\* The reply just written answers a pointing or wheel-motion command.
LastGated ==
    LastAscol
    /\ Len(last.frame) > 0
    /\ last.frame[1] \in {"TSRA", "TGRA", "WASP", "WAGP", "WBSP", "WBGP"}

NoLoginReply(t, f, now_) == ascol_callback(t, f, now_).ret = ERR_NO_LOGIN

\* C1: once GLLG has been sent, at time T0, a gated command is refused with
\* the no-login token exactly when LOGIN_TIMEOUT or more has passed since the
\* most recent GLLG: it passes the gate at T0 + LOGIN_TIMEOUT - 1 and is
\* refused at T0 + LOGIN_TIMEOUT, whatever was answered before.
C1_LoginExpiry ==
    ~IsNone(client.gllg) =>
        /\ \A f \in GatedProbes : NoLoginReply(tel, f, now) <=> ~LoginValid
        /\ LastGated => (last.reply = ERR_NO_LOGIN <=> ~LoginValid)

\* A gated command is refused exactly LOGIN_TIMEOUT after the login, one
\* second after another gated command passed the gate.
C1_Witness ==
    /\ LastGated
    /\ last.reply = ERR_NO_LOGIN
    /\ ~IsNone(client.gllg)
    /\ now - Val(client.gllg) = LOGIN_TIMEOUT
    /\ client.passed = Some(now - 1)

\* The telescopes t1 and t2 differ at most in the login flag.
SameDevices(t1, t2) ==
    [t1 EXCEPT !.logged_in = FALSE] = [t2 EXCEPT !.logged_in = FALSE]

Refused(r, t) == r.ret = ERR_NO_LOGIN /\ r.exc = "" /\ SameDevices(r.t, t)

\* C2: without an unexpired GLLG (none at all, or one LOGIN_TIMEOUT or more
\* ago) each pointing and wheel-motion command is refused with the no-login
\* token and changes nothing of the telescope but the login flag it
\* re-evaluates; no other command is ever answered with the no-login token.
C2_GateScope ==
    /\ ~LoginValid =>
          \A f \in GatedProbes : Refused(ascol_callback(tel, f, now), tel)
    /\ \A f \in UngatedProbes : ~NoLoginReply(tel, f, now)
    /\ (LastAscol /\ Len(last.frame) > 0 /\ ~LastGated) =>
          last.reply # ERR_NO_LOGIN

\* A gated command is refused before any GLLG was sent.
C2_Witness ==
    /\ LastGated
    /\ last.reply = ERR_NO_LOGIN
    /\ IsNone(client.gllg)

\* ------------------------------------------- the switched-off specification

\* The observatory with its telescope switched off, and one
\* telescope-protocol client sending gated, ungated and unknown commands.
InitOff ==
    /\ now = StartTime
    /\ ticks = 0
    /\ tel = TelescopeOff
    /\ dfosc = DfoscInit
    /\ conns = [c \in Conns |-> ConnInit]
    /\ last = NoLast
    /\ client = ClientInit
    /\ ccd3 = Ccd3Init
    /\ http = NoHttp

OffSteps == {1, LOGIN_TIMEOUT}

NextOff ==
    \/ Accept(1, "ascol")
    \/ \E f \in GatedProbes \cup UngatedProbes : Serve(1, f)
    \/ \E d \in OffSteps : Tick(d)

SpecOff == InitOff /\ [][NextOff]_vars

\* C3: while the telescope is switched off, every command with a command
\* code, gated or not, known or unknown, logged in or not, is answered with
\* the power-off token and leaves the telescope as it was; a gated command
\* without a login gets the power-off token, not the no-login token.
C3_PowerOffFirst ==
    tel.tel_state = "00" =>
        /\ \A f \in GatedProbes \cup UngatedProbes :
              ascol_callback(tel, f, now) = Ret(tel, ERR_TEL_OFF)
        /\ (LastAscol /\ Len(last.frame) > 0) => last.reply = ERR_TEL_OFF
        /\ tel = TelescopeOff

\* A gated command sent without a login to the switched-off telescope has
\* been answered with the power-off token.
C3_Witness ==
    /\ tel.tel_state = "00"
    /\ LastGated
    /\ IsNone(client.gllg)
    /\ last.reply = ERR_TEL_OFF

\* ------------------------------------------------ the dispatch specification

\* One client of each line protocol.  The frames are a line that is empty
\* once stripped, unknown codes, handlers that raise and handlers that
\* answer; on the instrument protocol also a single letter that is no whole
\* word.
AscolDispatchFrames ==
    {<< >>, <<"XXXX">>, <<"TEST">>, <<"GLLG">>, <<"TRRD">>}
DfoscDispatchFrames ==
    {<< >>, <<"x">>, <<"z", "z">>, <<"g">>, <<"G", "P">>, <<"g", "x">>,
     <<"g", "g", "u">>}
DispatchSteps == {1}

NextDispatch ==
    \/ Accept(1, "ascol")
    \/ Accept(2, "dfosc")
    \/ \E f \in AscolDispatchFrames : Serve(1, f)
    \/ \E f \in DfoscDispatchFrames : Serve(2, f)
    \/ \E d \in DispatchSteps : Tick(d)

SpecDispatch == Init /\ [][NextDispatch]_vars

\* C4: whatever frame a dispatch callback is handed, it returns a reply (an
\* error token or a response) and no exception leaves it for the transport.
C4_NoEscape == last.conn # 0 => last.exc = "" /\ Len(last.reply) > 0

\* ----------------------------------------------- the transport specification

\* Two clients of the telescope protocol, their threads taking the loop
\* statement by statement.  The frames are a line that is empty once
\* stripped (the callback raises), an unknown code (an error token) and a
\* login (acknowledged); each callback reads or writes one attribute.
TransportFrames == {<< >>, <<"XXXX">>, <<"GLLG">>}
TransportSteps == {1}

NextTransport ==
    \/ \E c \in Conns : Accept(c, "ascol")
    \/ \E c \in Conns : \E f \in TransportFrames : Recv(c, f)
    \/ \E c \in Conns : Call(c)
    \/ \E c \in Conns : Send(c)
    \/ \E c \in Conns : PeerClose(c)
    \/ \E c \in Conns : RecvEmpty(c)
    \/ \E d \in TransportSteps : Tick(d)

SpecTransport == Init /\ [][NextTransport]_vars

\* C5: on every connection each frame received is answered with one
\* non-empty reply before the next is read (one reply is owed exactly while
\* the thread is between recv and the end of sendall), and the loop has
\* ended only if the peer closed its end, with no reply owed, whatever
\* commands have failed on it.
C5_OneReplyEach ==
    \A c \in Conns :
        /\ conns[c].owed = IF conns[c].pc \in {"call", "send"} THEN 1 ELSE 0
        /\ conns[c].pc = "send" => Len(conns[c].reply) > 0
        /\ conns[c].status = "closed" => conns[c].peer = "closed"

\* A command is acknowledged on a connection on which the callback raised
\* for an earlier frame.
C5_Witness ==
    /\ last.conn # 0
    /\ conns[last.conn].failed
    /\ conns[last.conn].status = "open"
    /\ last.frame = <<"GLLG">>
    /\ last.reply = <<"1", "---">>
    /\ last.exc = ""

\* A thread between recv and the end of sendall can take its next statement.
CanGoOn(c) ==
    /\ conns[c].status = "new" => ENABLED Accept(c, "ascol")
    /\ (conns[c].status = "open" /\ conns[c].pc = "call") => ENABLED Call(c)
    /\ (conns[c].status = "open" /\ conns[c].pc = "send") => ENABLED Send(c)
    /\ (conns[c].status = "open" /\ conns[c].pc = "recv"
        /\ conns[c].peer = "open") => ENABLED Recv(c, <<"GLLG">>)

\* A step that changes connection c leaves every other connection as it was.
OnlyOwn(c) ==
    conns'[c] # conns[c] => \A o \in Conns \ {c} : conns'[o] = conns[o]

\* C7: whatever the other connections do (close, or have commands fail), a
\* connection is accepted, and its thread can always take the next statement
\* of its loop up to the reply; and no step of one connection, a close or a
\* failing command included, changes another connection.
C7_Independent ==
    /\ [](\A c \in Conns : CanGoOn(c))
    /\ [][\A c \in Conns : OnlyOwn(c)]_vars

\* A connection gets a reply after the other connection, on which a command
\* had failed, has been closed.
C7_Witness ==
    /\ last.conn # 0
    /\ \E o \in Conns \ {last.conn} :
          conns[o].status = "closed" /\ conns[o].failed
    /\ conns[last.conn].status = "open"
    /\ last.reply = <<"1", "---">>

\* ---------------------------------------------------- the race specification

\* Two clients of the telescope protocol log in and load targets; the two
\* threads take the TSRA handler statement by statement.
TargetB == <<"TSRA", 100000, 200000, "1">>
RaceFrames == {TargetA, TargetB}

NextRace ==
    \/ \E c \in Conns : Accept(c, "ascol")
    \/ \E c \in Conns : Serve(c, <<"GLLG">>)
    \/ \E c \in Conns : \E f \in RaceFrames : Recv(c, f)
    \/ \E c \in Conns : Gate(c)
    \/ \E c \in Conns : StoreRa(c)
    \/ \E c \in Conns : StoreDec(c)
    \/ \E c \in Conns : StorePos(c)
    \/ \E c \in Conns : Send(c)

SpecRace == Init /\ [][NextRace]_vars

\* No thread is inside a command.
Quiet == \A c \in Conns : conns[c].pc \in {"recv", "done"}

\* The targets that whole commands, run one after another in any order,
\* leave loaded: none, or all of one TSRA's.
SerialTargets ==
    {TelescopeInit.loaded_parameters}
    \cup {ascol_callback(ascol_callback(TelescopeInit, <<"GLLG">>, now).t,
                         f, now).t.loaded_parameters : f \in RaceFrames}

\* C6: with no thread inside a command, the loaded target is one that some
\* serial order of the whole commands served so far leaves: concurrent
\* commands take effect as units, with no update of one mixed into another's.
C6_Serializable == Quiet => tel.loaded_parameters \in SerialTargets

\* ------------------------------------------------ the pointing specification

\* One logged-in client loads a target on the meridian of the initial
\* pointing, on either pier side, starts the pointing and polls.
TargetA1 == <<"TSRA", 80000, -400000, "1">>
SlewFrames ==
    {<<"GLLG">>, TargetA, TargetA1, <<"TGRA">>, <<"TERS">>, <<"TRRD">>}
SlewSteps == {1, SKY_FLIP_TIME}

NextSlew ==
    \/ Accept(1, "ascol")
    \/ \E f \in SlewFrames : Serve(1, f)
    \/ \E d \in SlewSteps : Tick(d)

SpecSlew == Init /\ [][NextSlew]_vars

\* The flip and slew durations of the last acknowledged TGRA have elapsed.
PointingElapsed ==
    /\ ~IsNone(client.tgra)
    /\ ~IsNone(tel.slew_time)
    /\ now - Val(client.tgra).at >= SKY_FLIP_TIME + Val(tel.slew_time)

TargetReply(target) == <<target.ra, target.dec, target.tel_pos, "---">>

\* C8: once the flip and slew durations have elapsed since an acknowledged
\* TGRA, a TERS poll reports tracking and a TRRD poll reports the commanded
\* right ascension, declination and pier side.
C8_ReachesTarget ==
    (LastAscol /\ PointingElapsed) =>
        /\ last.frame = <<"TERS">> => last.reply = <<"05", "---">>
        /\ last.frame = <<"TRRD">> =>
              last.reply = TargetReply(Val(client.tgra).target)

\* The reply just written is a TERS report of a telescope state.
LastTers == LastAscol /\ last.frame = <<"TERS">> /\ ~IsErr(last.reply)

\* C9: a TERS report is never of an earlier phase (sky-flip, then slewing,
\* then tracking) than the furthest phase reported since the last TGRA.
C9_NeverBackwards == LastTers => Phase(last.reply[1]) = client.seen

\* After an acknowledged TGRA, TERS has reported tracking and reports it
\* again.
C9_Witness ==
    /\ LastTers
    /\ ~IsNone(client.tgra)
    /\ client.polls = 2
    /\ client.seen = Phase("05")
    /\ last.reply = <<"05", "---">>

\* --------------------------------------------------- the wheel specification

\* One logged-in client sets and starts wheels A and B and polls their state
\* and position; the clock advances by one second or by one second less
\* than the transit time.
WheelFrames ==
    {<<"GLLG">>, <<"WASP", "5">>, <<"WAGP">>, <<"WARS">>, <<"WARP">>,
     <<"WBSP", "2">>, <<"WBGP">>, <<"WBRS">>, <<"WBRP">>}
WheelSteps == {1, WHEEL_TIME - 1}

NextWheel ==
    \/ Accept(1, "ascol")
    \/ \E f \in WheelFrames : Serve(1, f)
    \/ \E d \in WheelSteps : Tick(d)

SpecWheel == Init /\ [][NextWheel]_vars

\* The replies a wheel owes to a state and a position query at time now_,
\* go being the last acknowledged go command, [at, pos].
WheelState(go, now_) ==
    <<IF now_ - go.at < WHEEL_TIME THEN "03" ELSE "04", "---">>
WheelPos(go, now_, rotating) ==
    <<IF now_ - go.at < WHEEL_TIME THEN rotating ELSE go.pos, "---">>

\* C10: after an acknowledged WAGP (WBGP) at time s that follows a set of
\* position p, WARS (WBRS) reports positioning and WARP (WBRP) the rotating
\* sentinel while s <= t < s + WHEEL_TIME, and locked and p from
\* s + WHEEL_TIME on.
C10_WheelTransit ==
    LastAscol =>
        /\ ~IsNone(client.wagp) =>
              /\ last.frame = <<"WARS">> =>
                    last.reply = WheelState(Val(client.wagp), now)
              /\ last.frame = <<"WARP">> =>
                    last.reply = WheelPos(Val(client.wagp), now, "8")
        /\ ~IsNone(client.wbgp) =>
              /\ last.frame = <<"WBRS">> =>
                    last.reply = WheelState(Val(client.wbgp), now)
              /\ last.frame = <<"WBRP">> =>
                    last.reply = WheelPos(Val(client.wbgp), now, "7")

\* Wheel A is reported locked at its new position exactly WHEEL_TIME after
\* the go command, wheel B having been started too.
C10_Witness ==
    /\ LastAscol
    /\ ~IsNone(client.wagp)
    /\ ~IsNone(client.wbgp)
    /\ now - Val(client.wagp).at = WHEEL_TIME
    /\ last.frame = <<"WARP">>
    /\ last.reply = <<"5", "---">>

\* ------------------------------------------------- flaps and the dome slit

\* One client opens, closes and stops the flaps and the dome slit and polls
\* their states; the clock advances by one second or by one second less than
\* the transit time.
FlapFrames ==
    {<<"FCOP", "1">>, <<"FCOP", "close">>, <<"FCST">>, <<"FCRS">>,
     <<"FMOP", "open">>, <<"FMOP", "0">>, <<"FMRS">>,
     <<"DOSO", "1">>, <<"DOSO", "0">>, <<"DOSS">>}
FlapSteps == {1, FLAP_TIME - 1}

NextFlap ==
    \/ Accept(1, "ascol")
    \/ \E f \in FlapFrames : Serve(1, f)
    \/ \E d \in FlapSteps : Tick(d)

SpecFlap == Init /\ [][NextFlap]_vars

\* The state a flap or the slit owes at time now_, mv being the last
\* acknowledged move, [at, token], and transit the duration of the movement.
MoveState(mv, now_, transit) ==
    CASE mv.token \in {"open", "1"} ->
            IF now_ - mv.at < transit THEN "01" ELSE "03"
      [] mv.token \in {"close", "0"} ->
            IF now_ - mv.at < transit THEN "02" ELSE "04"
      [] mv.token = "stop" -> "00"

\* The device answers its state query as the move mv requires, and once the
\* transit is over the query leaves no pending target behind.
MoveReported(mv, now_, transit, reply, pending) ==
    /\ reply = <<MoveState(mv, now_, transit), "---">>
    /\ now_ - mv.at >= transit => IsNone(pending)

\* C11: after an acknowledged move of a flap or of the dome slit at time s,
\* the state query reports opening (closing) while t - s is less than the
\* transit time and open (closed) from then on, however often it is asked
\* and until the next move or stop; a query made once the transit is over
\* leaves no pending target.
C11_FlapTransit ==
    LastAscol =>
        /\ last.frame = <<"FCRS">> /\ ~IsNone(client.moved["cassegrain"]) =>
              MoveReported(Val(client.moved["cassegrain"]), now, FLAP_TIME,
                           last.reply, tel.loaded_parameters["cassegrain_flap"])
        /\ last.frame = <<"FMRS">> /\ ~IsNone(client.moved["mirror"]) =>
              MoveReported(Val(client.moved["mirror"]), now, FLAP_TIME,
                           last.reply, tel.loaded_parameters["mirror_flap"])
        /\ last.frame = <<"DOSS">> /\ ~IsNone(client.moved["slit"]) =>
              MoveReported(Val(client.moved["slit"]), now, DOME_SLIT_TIME,
                           last.reply, tel.loaded_parameters["dome_slit_state"])

\* The cassegrain flap is reported open exactly FLAP_TIME after the move,
\* the slit being on its way shut.
C11_Witness ==
    /\ LastAscol
    /\ last.frame = <<"FCRS">>
    /\ ~IsNone(client.moved["cassegrain"])
    /\ ~IsNone(client.moved["slit"])
    /\ Val(client.moved["cassegrain"]).token = "1"
    /\ now - Val(client.moved["cassegrain"]).at = FLAP_TIME
    /\ last.reply = <<"03", "---">>
    /\ tel.dome_slit_state = "02"

\* ------------------------------------------------------------ the focuser

\* One client loads focus targets, starts them and polls state and
\* position; the clock advances by one second or by one second less than
\* the focus time.
FocusFrames ==
    {<<"FOSA", "5">>, <<"FOSA", "-3">>, <<"FOSR", "5">>, <<"FOGA">>,
     <<"FOGR">>, <<"FORS">>, <<"FORA">>}
FocusSteps == {1, FOCUS_TIME - 1}

NextFocus ==
    \/ Accept(1, "ascol")
    \/ \E f \in FocusFrames : Serve(1, f)
    \/ \E d \in FocusSteps : Tick(d)

SpecFocus == Init /\ [][NextFocus]_vars

\* The state the focuser owes at time now_, go being [at, p, prev].
FocusState(go, now_) ==
    IF now_ - go.at >= FOCUS_TIME THEN "00"
    ELSE IF go.p >= go.prev THEN "01" ELSE "02"

\* C12: after an acknowledged FOSA with target p and a FOGA at time s, with
\* no set command in between or since, FORS reports moving-positive (p at or
\* above the previous position) or moving-negative while t - s < FOCUS_TIME
\* and idle from then on, leaving no pending target, and FORA reports p.
C12_FocusMove ==
    LastAscol /\ ~IsNone(client.foga) =>
        /\ last.frame = <<"FORS">> =>
              /\ last.reply = <<FocusState(Val(client.foga), now)>>
              /\ now - Val(client.foga).at >= FOCUS_TIME =>
                    IsNone(tel.loaded_parameters["focus_position"])
        /\ last.frame = <<"FORA">> =>
              last.reply = <<Format02f(Val(client.foga).p)>>

\* ---------------------------------------------------------------- the dome

\* One client parks, stops and polls the dome and puts it in automatic
\* mode; a TGRA to the other pier side fails and leaves the telescope
\* tracking, its azimuth following the sky.  The clock advances by ten
\* seconds or by a minute.
DomeFrames ==
    {<<"DOPA">>, <<"DOAM">>, <<"DOST">>, <<"DORS">>, <<"DORA">>,
     <<"GLLG">>, TargetA1, <<"TGRA">>}
DomeSteps == {10, 60}

NextDome ==
    \/ Accept(1, "ascol")
    \/ \E f \in DomeFrames : Serve(1, f)
    \/ \E d \in DomeSteps : Tick(d)

SpecDome == Init /\ [][NextDome]_vars

\* The reply just written answers a dome command, which has brought the
\* dome up to date.
LastDome ==
    /\ LastAscol
    /\ Len(last.frame) > 0
    /\ last.frame[1] \in {"DOPA", "DOAM", "DOST", "DORS", "DORA"}

\* The dome is turning and its move time has not yet passed.
DomeUnderWay ==
    /\ tel.dome_moving
    /\ ~IsNone(tel.dome_move_time)
    /\ now - tel.dome_move_starttime < Val(tel.dome_move_time)

\* The dome is at rest with nothing pending.
DomeAtRest ==
    /\ ~tel.dome_moving
    /\ IsNone(tel.loaded_parameters["dome_delta"])
    /\ IsNone(tel.dome_move_time)

\* C14: the dome position is always in [0, 360) degrees, and whenever the
\* dome has been brought up to date a move is either still under way, its
\* move time not yet elapsed, or completed, with the moving flag, the
\* pending delta and the move time cleared.
C14_DomeMove ==
    /\ tel.dome_position >= 0
    /\ tel.dome_position < Deg(360)
    /\ LastDome => DomeUnderWay \/ DomeAtRest

\* A move that completes (and is not stopped) ends at (old + delta) mod 360.
DomeLandsExactly ==
    [][tel.dome_moving /\ ~tel'.dome_moving /\ last'.frame # <<"DOST">>
         => tel'.dome_position =
               (Val(tel.loaded_parameters["old_dome_pos"])
                  + Val(tel.loaded_parameters["dome_delta"])) % Deg(360)]_vars

\* A completed move has taken the dome across north.
DomeWrapped ==
    LastDome /\ DomeAtRest /\ tel.dome_position > Deg(180)

\* --------------------------------------------------------------- the camera

\* One client of the camera server loads an exposure time, exposes and
\* polls the state, and sends requests that lack a parameter, carry an
\* unknown one or name no action; the clock advances by one second, by the
\* exposure time or by the read-out time.
Query(exposure, bogus, ccd, fe) ==
    [k \in QKeys |->
        CASE k = "CCD3.exposure" -> exposure [] k = "bogus" -> bogus
          [] k = "ccd" -> ccd [] k = "fe" -> fe]
Request(path, query) == [path |-> path, query |-> query]

CameraRequests ==
    {Request(<<"api", "get">>, Query(None, None, None, None)),
     Request(<<"api", "mset">>, Query(Some("5"), None, None, None)),
     Request(<<"api", "mset">>, Query(Some("0"), Some("1"), None, None)),
     Request(<<"api", "expose">>, Query(None, None, Some("CCD3"), Some("a.fits"))),
     Request(<<"api", "expose">>, Query(None, None, Some("CCD3"), None)),
     Request(<<"api", "expose">>, Query(None, None, None, Some("a.fits"))),
     Request(<<"get">>, Query(None, None, None, None)),
     Request(<<"api", "abort">>, Query(None, None, None, None))}
CameraSteps == {1, 5, READ_TIME}

NextCamera ==
    \/ \E req \in CameraRequests : Get(req)
    \/ \E d \in CameraSteps : Tick(d)

SpecCamera == Init /\ [][NextCamera]_vars

\* The action a request names, and requests by their defect.
Cmd(req) == IF Len(req.path) = 0 THEN "" ELSE req.path[Len(req.path)]
UnderApi(req) == Len(req.path) > 0 /\ req.path[1] = "api"
UnknownMset(req) ==
    UnderApi(req) /\ Cmd(req) = "mset" /\ ~IsNone(req.query["bogus"])
ExposeNoFe(req) ==
    UnderApi(req) /\ Cmd(req) = "expose" /\ IsNone(req.query["fe"])
ExposeNoCcd(req) ==
    UnderApi(req) /\ Cmd(req) = "expose" /\ req.query["ccd"] # Some("CCD3")

\* The state the camera owes at time now_, ex being the last acknowledged
\* expose, [at, exptime].
CameraState(ex, now_) ==
    IF now_ - ex.at < ex.exptime THEN CAMERA_EXPOSING_SHUTTER_OPEN
    ELSE IF now_ - ex.at < ex.exptime + READ_TIME THEN CAMERA_READING
    ELSE CAMERA_READY

\* C15: after an expose answered 200 at time s with exposure time E loaded,
\* a get reports exposing with the shutter open while t - s < E, reading out
\* while E <= t - s < E + READ_TIME, and idle from then on, the loaded
\* parameters being cleared.
C15_Exposure ==
    /\ http.req.path = <<"api", "get">>
    /\ http.responses = <<200>>
    /\ ~IsNone(client.expose)
    => /\ http.state = Some(CameraState(Val(client.expose), now))
       /\ now - Val(client.expose).at >= Val(client.expose).exptime + READ_TIME
             => ccd3.loaded_parameters = Ccd3Init.loaded_parameters

\* C16: an mset request with an unknown parameter name is answered with one
\* 400 and leaves the loaded parameters as they were, the known names of the
\* same request included.
C16_MsetRejected ==
    [][UnknownMset(http'.req)
         => /\ http'.responses = <<400>>
            /\ ccd3'.loaded_parameters = ccd3.loaded_parameters]_vars

\* C17: an expose request without fe is answered with one 400 and leaves
\* the camera as it was: no exposure started, state and parameters
\* unchanged.
C17_ExposeNeedsFe ==
    [][ExposeNoFe(http'.req)
         => /\ http'.responses = <<400>>
            /\ ccd3' = ccd3]_vars

\* An expose without fe has been refused while an exposure time was loaded.
C17_Witness ==
    /\ ExposeNoFe(http.req)
    /\ http.responses = <<400>>
    /\ ~IsNone(ccd3.loaded_parameters["CCD3.exposure"])
    /\ ~ccd3.exposure_started

\* C18: every request gets exactly one response: 400 when the path is not
\* under /api, when the action is none of get, mset and expose, or when an
\* expose lacks ccd=CCD3, which then starts no exposure; 200 for no such
\* request.
C18_OneResponse ==
    [][Len(http'.req.path) > 0
         => /\ Len(http'.responses) = 1
            /\ ~UnderApi(http'.req)
                  \/ Cmd(http'.req) \notin {"get", "mset", "expose"}
                  \/ ExposeNoCcd(http'.req)
                  => http'.responses = <<400>>
            /\ ExposeNoCcd(http'.req) => ccd3' = ccd3]_vars

\* ---------------------------------------------- the instrument specification

\* One client of the instrument protocol.  The frames are quick presets,
\* absolute moves, relative moves with positive and negative offsets,
\* zeroing, position queries and readiness queries, in either case.
DfoscFrames ==
    {<<"G", "5">>, <<"a", "2">>,
     <<"G", "G", "0", "1", "2", "3", "4", "5">>,
     <<"g", "m", "-", "2", "0", "0", "0", "0", "0">>,
     <<"g", "m", "+", "1", "6", "0", "0", "0", "0">>,
     <<"g", "x">>,
     <<"g", "p">>, <<"f", "p">>,
     <<"g">>}
DfoscSteps == {1}

\* The client stops sending negative offsets to a wheel that is a whole
\* turn below zero.
Offered(f) ==
    f = <<"g", "m", "-", "2", "0", "0", "0", "0", "0">> =>
        dfosc.position["grism"] > -MAX_POSITION

NextDfosc ==
    \/ Accept(2, "dfosc")
    \/ \E f \in DfoscFrames : Offered(f) /\ Serve(2, f)
    \/ \E d \in DfoscSteps : Tick(d)

SpecDfosc == Init /\ [][NextDfosc]_vars

LastDfosc == last.conn # 0 /\ conns[last.conn].server = "dfosc"

\* The subsystem letters, each with its upper-case form.
Letters == {<<"g", "G">>, <<"a", "A">>, <<"f", "F">>}
Cases(l) == {l[1], l[2]}
DigitRuns == {<<"0">>, <<"7">>, <<"0", "1", "2", "3", "4", "5">>}

\* The callback has answered command as handler result r answers it, by a
\* key of the lookup.
DispatchedAs(command, r) ==
    /\ responder_code(command).ret \in dfosc_responders_lookup
    /\ dfosc_callback(dfosc, command, perf_counter(now)) = TryResponse(r)

\* C19: for each subsystem letter, in either case, the letter followed by a
\* digit is answered by the quick-preset handler of that subsystem, the
\* letter followed by G and digits by its absolute-move handler, and the
\* bare lower-case letter by its readiness-query handler.
C19_Decoding ==
    \A l \in Letters :
        /\ \A c \in Cases(l) : \A i \in 1..Len(DigitChars) :
              DispatchedAs(<<c, DigitChars[i]>>,
                           xn_response(dfosc, WheelOf(l[1]),
                                       <<c, DigitChars[i]>>,
                                       perf_counter(now)))
        /\ \A c \in Cases(l) : \A g \in {"g", "G"} : \A run \in DigitRuns :
              DispatchedAs(<<c, g>> \o run,
                           xg_response(dfosc, WheelOf(l[1]), <<c, g>> \o run,
                                       perf_counter(now)))
        /\ DispatchedAs(<<l[1]>>,
                        ready_response(dfosc, WheelOf(l[1]), <<l[1]>>))

\* "G5" has just been echoed with the grism wheel sent to five integer
\* steps, the move starting after the clock has advanced.
C19_Witness ==
    /\ LastDfosc
    /\ last.frame = <<"G", "5">>
    /\ last.reply = <<"G", "5", "\n">>
    /\ dfosc.position["grism"] = 5 * INTEGER_STEP
    /\ dfosc.move_start["grism"] > perf_counter(StartTime)

\* The reply of the position query of wheel w.
PositionReply(w) == xp_response(dfosc, w, << >>).ret

\* C20: after any sequence of absolute, relative, quick-preset and zero
\* moves, each wheel position is in [0, MAX_POSITION) and the position
\* query reports it as exactly six decimal digits.
C20_PositionRange ==
    \A w \in Wheels :
        /\ dfosc.position[w] \in 0..(MAX_POSITION - 1)
        /\ Len(PositionReply(w)) = 6
        /\ \A i \in 1..Len(PositionReply(w)) : IsDigit(PositionReply(w)[i])

\* ------------------------------------------------------ the state queries

\* One client working one device at a time: it logs in and starts a filter
\* wheel, or starts the flaps and the dome slit, the focuser, the dome, the
\* camera (which opens the shutter) or an instrument wheel, and polls the
\* states.  The clock
\* advances by one second or by a minute, which is longer than every
\* transit.
Devices == {"wheel", "flap", "focus", "dome", "camera", "dfosc"}

WheelFields ==
    {"logged_in", "login_time", "wheel_a_pos", "wheel_a_state",
     "wheel_a_starttime", "wheel_b_pos", "wheel_b_state", "wheel_b_starttime"}
FlapFields ==
    {"flap_state", "flap_starttime", "dome_slit_state", "dome_slit_starttime"}
FocusFields == {"focus_pos", "focus_state", "focus_starttime"}
DomeFields ==
    {"dome_state", "dome_position", "dome_auto", "dome_moving",
     "dome_parking", "dome_stopped", "dome_move_time", "dome_init_starttime",
     "dome_move_starttime"}

\* The attributes and the loaded parameters named are as __init__ left them.
Fresh(fields, keys) ==
    /\ \A f \in fields : tel[f] = TelescopeInit[f]
    /\ \A k \in keys : IsNone(tel.loaded_parameters[k])

Untouched(dev) ==
    CASE dev = "wheel" -> Fresh(WheelFields, {"wheel_a_pos", "wheel_b_pos"})
      [] dev = "flap" ->
            Fresh(FlapFields,
                  {"cassegrain_flap", "mirror_flap", "dome_slit_state"})
      [] dev = "focus" ->
            Fresh(FocusFields, {"focus_position", "focus_moving_positive"})
      [] dev = "dome" -> Fresh(DomeFields, {"dome_delta", "old_dome_pos"})
      [] dev = "camera" -> ccd3 = Ccd3Init /\ Fresh({"shutter_pos"}, {})
      [] dev = "dfosc" -> dfosc = DfoscInit

\* The client works on dev: no other device has been touched.
Alone(dev) == \A o \in Devices \ {dev} : Untouched(o)

QueryFrames ==
    [wheel |-> {<<"GLLG">>, <<"WASP", "5">>, <<"WAGP">>, <<"WARS">>},
     flap |-> {<<"FCOP", "1">>, <<"FCST">>, <<"FCRS">>, <<"DOSO", "1">>,
               <<"DOSS">>},
     focus |-> {<<"FOSA", "5">>, <<"FOGA">>, <<"FORS">>},
     dome |-> {<<"DOAM">>, <<"DOPA">>, <<"DORA">>, <<"DORS">>}]
QueryDfoscFrames == {<<"G", "5">>, <<"g">>}
QueryRequests ==
    {Request(<<"api", "get">>, Query(None, None, None, None)),
     Request(<<"api", "mset">>, Query(Some("5"), None, None, None)),
     Request(<<"api", "expose">>,
             Query(None, None, Some("CCD3"), Some("a.fits")))}
QuerySteps == {1, 60}

NextQuery ==
    \/ conns[2].status = "new" /\ Accept(1, "ascol")
    \/ conns[1].status = "new" /\ Accept(2, "dfosc")
    \/ \E dev \in DOMAIN QueryFrames : \E f \in QueryFrames[dev] :
          Alone(dev) /\ Serve(1, f)
    \/ \E f \in QueryDfoscFrames : Alone("dfosc") /\ Serve(2, f)
    \/ \E req \in QueryRequests : Alone("camera") /\ Get(req)
    \/ \E d \in QuerySteps : Tick(d)

SpecQuery == Init /\ [][NextQuery]_vars

\* The state queries of the telescope protocol.
StateQueries ==
    {<<"WARS">>, <<"WBRS">>, <<"FCRS">>, <<"FMRS">>, <<"DOSS">>, <<"DORS">>,
     <<"FORS">>}

\* The second query follows the first at once, a second later or a minute
\* later.
QueryGaps == {0, 1, 60}

\* The device a state query reads is in its transit window at now_: less
\* than its transit time after its start.
InWindow(frame, t, now_) ==
    CASE frame = <<"WARS">> -> now_ - t.wheel_a_starttime < WHEEL_TIME
      [] frame = <<"WBRS">> -> now_ - t.wheel_b_starttime < WHEEL_TIME
      [] frame \in {<<"FCRS">>, <<"FMRS">>} ->
            now_ - t.flap_starttime[FlapOf(frame[1])] < FLAP_TIME
      [] frame = <<"DOSS">> -> now_ - t.dome_slit_starttime < DOME_SLIT_TIME
      [] frame = <<"DORS">> ->
            /\ ~IsNone(t.dome_move_time)
            /\ now_ - t.dome_move_starttime < Val(t.dome_move_time)
      [] frame = <<"FORS">> -> now_ - t.focus_starttime < FOCUS_TIME

\* r1 and r2 are the results of a query and of the same query after it,
\* in1 and in2 tell whether each fell in the transit window: two queries in
\* the window return the same value, and after the window the second
\* returns what the first returned and leaves the stored state as the first
\* left it.
Idempotent(r1, r2, in1, in2) ==
    /\ (in1 /\ in2) => r2.ret = r1.ret
    /\ ~in1 => r2 = r1

\* The query of the telescope protocol, asked now and again d seconds
\* later.
AscolTwice(frame, d) ==
    Idempotent(ascol_callback(tel, frame, now),
               ascol_callback(ascol_callback(tel, frame, now).t, frame,
                              now + d),
               InWindow(frame, tel, now), InWindow(frame, tel, now + d))

\* set_ccd_state takes the transit of a started exposure to last the
\* exposure time and the read-out time from _exposure_starttime.
CameraInWindow(c, now_) ==
    /\ c.exposure_started
    /\ ~IsNone(c.loaded_parameters["CCD3.exposure"])
    /\ now_ - c.exposure_starttime
          < Val(c.loaded_parameters["CCD3.exposure"]) + READ_TIME

CameraTwice(d) ==
    Idempotent(get_ccd_state(ccd3, now),
               get_ccd_state(get_ccd_state(ccd3, now).t, now + d),
               CameraInWindow(ccd3, now), CameraInWindow(ccd3, now + d))

DfoscInWindow(d, w, perf_) == perf_ - d.move_start[w] < DFOSC_WHEEL_TIME

\* The readiness query of an instrument wheel, by the protocol and on the
\* MockDfosc object.
DfoscTwice(l, d) ==
    /\ Idempotent(dfosc_callback(dfosc, <<l>>, perf_counter(now)),
                  dfosc_callback(
                      dfosc_callback(dfosc, <<l>>, perf_counter(now)).t,
                      <<l>>, perf_counter(now + d)),
                  DfoscInWindow(dfosc, WheelOf(l), perf_counter(now)),
                  DfoscInWindow(dfosc, WheelOf(l), perf_counter(now + d)))
    /\ Idempotent(get_state(dfosc, WheelOf(l), perf_counter(now)),
                  get_state(get_state(dfosc, WheelOf(l), perf_counter(now)).t,
                            WheelOf(l), perf_counter(now + d)),
                  DfoscInWindow(dfosc, WheelOf(l), perf_counter(now)),
                  DfoscInWindow(dfosc, WheelOf(l), perf_counter(now + d)))

\* C13: for the filter wheels, the flaps, the dome slit, the dome, the
\* focuser, the instrument wheels and the camera, a state query repeated
\* with no command in between returns the same value while both queries
\* fall in the transit window, and after the window returns the settled
\* value again and leaves the stored state as the first query left it.
C13_QueriesIdempotent ==
    \A d \in QueryGaps :
        /\ \A frame \in StateQueries : AscolTwice(frame, d)
        /\ CameraTwice(d)
        /\ \A l \in {"g", "a", "f"} : DfoscTwice(l, d)

\* ------------------------------------------------------- the go commands

\* One client logs in, loads targets for the pointing and for wheels A and
\* B and starts them, also when nothing is loaded; the clock advances by one
\* second or by half a minute.  Nothing is ever loaded for wheel B.
GoFrames ==
    {<<"GLLG">>, TargetA, TargetA1, <<"TGRA">>, <<"WASP", "5">>, <<"WAGP">>,
     <<"WBGP">>}
GoSteps == {1, 30}

NextGo ==
    \/ Accept(1, "ascol")
    \/ \E f \in GoFrames : Serve(1, f)
    \/ \E d \in GoSteps : Tick(d)

SpecGo == Init /\ [][NextGo]_vars

\* The loaded parameters a go command consumes, and the attributes of the
\* device it starts: position, state, flags and timers.
GoKeys(code) ==
    CASE code = "TGRA" -> {"ra", "dec", "tel_pos"}
      [] code = "WAGP" -> {"wheel_a_pos"}
      [] code = "WBGP" -> {"wheel_b_pos"}
GoFields(code) ==
    CASE code = "TGRA" ->
            {"ra", "dec", "skycoord", "tel_pos", "tel_state", "tel_on",
             "tel_stopped", "tel_slewing", "tel_flipping", "tel_parking",
             "slew_starttime", "flip_starttime", "slew_time",
             "slew_waypoint_formula"}
      [] code = "WAGP" -> {"wheel_a_pos", "wheel_a_state", "wheel_a_starttime"}
      [] code = "WBGP" -> {"wheel_b_pos", "wheel_b_state", "wheel_b_starttime"}

\* No target is pending for the go command on telescope t.
NoTarget(code, t) == \A k \in GoKeys(code) : IsNone(t.loaded_parameters[k])

\* C21: a TGRA, WAGP or WBGP served while no target is pending for it is
\* answered with an error token and leaves the position, state, flags and
\* timers of its device as they were.
C21_GoNeedsTarget ==
    [][\A code \in {"TGRA", "WAGP", "WBGP"} :
          (Serve(1, <<code>>) /\ NoTarget(code, tel)) =>
              /\ IsErr(last'.reply)
              /\ \A f \in GoFields(code) : tel'[f] = tel[f]]_vars

\* A logged-in client's second TGRA, sent while the telescope slews to the
\* target the first one consumed, has been refused by the handler.
C21_Witness ==
    /\ LastAscol
    /\ last.frame = <<"TGRA">>
    /\ last.reply = ErrClass("ValueError")
    /\ tel.tel_slewing
    /\ ~IsNone(client.tgra)
    /\ NoTarget("TGRA", tel)

\* C22: a FOGA or FOGR served while no focus target is pending is answered
\* with an error token and leaves the focuser's position and state as they
\* were, so that FORA still reports the previous position.
C22_FocusGoNeedsTarget ==
    [][\A code \in {"FOGA", "FOGR"} :
          (Serve(1, <<code>>) /\ IsNone(tel.loaded_parameters["focus_position"]))
              => /\ IsErr(last'.reply)
                 /\ tel'.focus_pos = tel.focus_pos
                 /\ tel'.focus_state = tel.focus_state
                 /\ fora_response(tel', <<"FORA">>, now).ret
                       = fora_response(tel, <<"FORA">>, now).ret]_vars

\* ------------------------------------------------------ the stop commands

\* One client works the flaps or the dome: it opens and closes a flap,
\* puts the dome in automatic mode, polls its position (which starts the
\* automatic moves), parks it, and stops either at any time.  The clock
\* advances by five seconds, inside every transit, or by a minute.
StopFrames ==
    [flap |-> {<<"FCOP", "1">>, <<"FCST">>, <<"FCRS">>, <<"FMOP", "0">>,
               <<"FMST">>, <<"FMRS">>},
     dome |-> {<<"DOAM">>, <<"DOPA">>, <<"DORA">>, <<"DORS">>, <<"DOST">>}]
StopSteps == {5, 60}

NextStop ==
    \/ Accept(1, "ascol")
    \/ \E dev \in DOMAIN StopFrames : \E f \in StopFrames[dev] :
          Alone(dev) /\ Serve(1, f)
    \/ \E d \in StopSteps : Tick(d)

SpecStop == Init /\ [][NextStop]_vars

\* A state query follows at once, five seconds later or a minute later.
StopGaps == {0, 5, 60}

ACK == <<"1", "---">>

\* On telescope t no move of the dome is pending or under way and every
\* later DORS reports the dome stopped.
DomeStopped(t, now_) ==
    /\ IsNone(t.loaded_parameters["dome_delta"])
    /\ ~t.dome_auto /\ ~t.dome_parking /\ ~t.dome_moving
    /\ \A d \in StopGaps :
          dors_response(t, <<"DORS">>, now_ + d).ret = <<"00", "---">>

\* On telescope t no move of the flap is pending and every later state
\* query reports it stopped.
FlapStopped(t, flap, now_) ==
    /\ IsNone(t.loaded_parameters[FlapKey(flap)])
    /\ \A d \in StopGaps :
          fxrs_response(t, flap, <<"FCRS">>, now_ + d).ret = <<"00", "---">>

\* The step serves frame to the one client: the connection is accepted
\* before its first reply and the clock clears last, so that a step that
\* leaves a reply in last at an unchanged time has written it.
Served(frame) == now' = now /\ last'.conn # 0 /\ last'.frame = frame

\* The step answers a DORA or a DORS, or lets time pass.
DomePoll == Served(<<"DORA">>) \/ Served(<<"DORS">>) \/ now' # now

\* C23: DOST and FCST/FMST are acknowledged at any point of a transition,
\* clear the pending move and make every later state query report stopped;
\* after DOST the automatic, parking and moving flags are off, and while the
\* dome is stopped polls and the passing of time leave its position where
\* it was, DORA reporting that position.
C23_StopHolds ==
    [][/\ Served(<<"DOST">>) =>
             last'.reply = ACK /\ DomeStopped(tel', now)
       /\ \A code \in {"FCST", "FMST"} :
             Served(<<code>>) =>
                 last'.reply = ACK /\ FlapStopped(tel', FlapOf(code), now)
       /\ (tel.dome_stopped /\ DomePoll) =>
             /\ tel'.dome_position = tel.dome_position
             /\ Served(<<"DORA">>) =>
                   last'.reply = <<DomeStr(tel.dome_position), "---">>]_vars

\* DOST has been acknowledged with the dome part of the way through an
\* automatic move: the dome stands where the last poll saw it, away from
\* the position the move began at.
C23_Witness ==
    /\ LastAscol
    /\ last.frame = <<"DOST">>
    /\ last.reply = ACK
    /\ ~IsNone(tel.loaded_parameters["old_dome_pos"])
    /\ tel.dome_position # Val(tel.loaded_parameters["old_dome_pos"])
    /\ tel.dome_stopped

\* ------------------------------------------------- stopping and flipping

\* One logged-in client loads a target on either pier side, starts the
\* pointing, stops the telescope and polls state and position; the clock
\* advances by one second or by the flip time, which is also the slew time
\* of the target.
PointFrames ==
    {<<"GLLG">>, TargetA, TargetA1, <<"TGRA">>, <<"TEST">>, <<"TERS">>,
     <<"TRRD">>}
PointSteps == {1, SKY_FLIP_TIME}

NextPoint ==
    \/ Accept(1, "ascol")
    \/ \E f \in PointFrames : Serve(1, f)
    \/ \E d \in PointSteps : Tick(d)

SpecPoint == Init /\ [][NextPoint]_vars

\* C24: a TEST sent after an acknowledged TGRA, with the telescope slewing
\* or tracking, is acknowledged and leaves the telescope stopped, the next
\* TERS reporting ready.
C24_StopTelescope ==
    (LastAscol /\ last.frame = <<"TEST">> /\ ~IsNone(client.tgra)) =>
        /\ last.reply = ACK
        /\ tel.tel_stopped
        /\ ters_response(tel, <<"TERS">>, now).ret = <<"04", "---">>

\* The motion flags of the telescope that are set.
TelFlags(t) ==
    {f \in {"tel_stopped", "tel_slewing", "tel_flipping", "tel_parking"} :
        t[f]}

\* C25: in every reachable state exactly one of the flags stopped, slewing,
\* flipping and parking is set, and a stopped telescope that is switched on
\* reports the state code ready.
C25_OneFlag ==
    /\ Cardinality(TelFlags(tel)) = 1
    /\ (tel.tel_stopped /\ tel.tel_on) =>
           ters_response(tel, <<"TERS">>, now).ret = <<"04", "---">>

\* ------------------------------------------------------------ dome flags

\* C26: in every reachable dome state a set moving flag comes with a pending
\* delta and a move duration, and the auto and parking flags are never both
\* set.
C26_DomeFlags ==
    /\ tel.dome_moving =>
           /\ ~IsNone(tel.loaded_parameters["dome_delta"])
           /\ ~IsNone(tel.dome_move_time)
    /\ ~(tel.dome_auto /\ tel.dome_parking)

\* A DORA has just started an automatic move of the dome.
C26_Witness ==
    /\ LastAscol
    /\ last.frame = <<"DORA">>
    /\ tel.dome_moving
    /\ tel.dome_auto
    /\ tel.dome_move_starttime = now
    /\ ~IsNone(tel.dome_move_time)

\* ------------------------------------------------------ slew interpolation

\* The reply just written answers a state or position query that arrived
\* during the slew an acknowledged TGRA started.
QueriedInSlew ==
    /\ LastAscol
    /\ last.frame \in {<<"TERS">>, <<"TRRD">>}
    /\ ~IsNone(client.tgra)
    /\ tel.tel_slewing
    /\ now - tel.slew_starttime < Val(tel.slew_time)

\* C27: the go-pointing command installs an interpolation function, and
\* every state or position query during the slew succeeds by evaluating it,
\* TERS reporting the slewing state.
C27_SlewQueries ==
    QueriedInSlew =>
        /\ ~IsNone(tel.slew_waypoint_formula)
        /\ ~IsErr(last.reply)
        /\ last.frame = <<"TERS">> => last.reply = <<"07", "---">>

\* ------------------------------------------------------------- pier flip

\* A pointing is loaded for the pier side the telescope is not on, in a
\* session that is logged in on a telescope that is switched on.
FlipLoaded(t, now_) ==
    /\ t.tel_state # "00"
    /\ now_ - t.login_time < LOGIN_TIMEOUT
    /\ ~IsNone(t.loaded_parameters["ra"])
    /\ ~IsNone(t.loaded_parameters["dec"])
    /\ ~IsNone(t.loaded_parameters["tel_pos"])
    /\ Val(t.loaded_parameters["tel_pos"]) # t.tel_pos

\* C28: a TGRA with a pending pier side different from the current one is
\* acknowledged and starts the flip phase: the flip is timed from the
\* command, a TERS at that moment reports sky-flip, and the slew has not
\* started.
C28_FlipPrecedesSlew ==
    [][(Served(<<"TGRA">>) /\ FlipLoaded(tel, now)) =>
          /\ ~IsErr(last'.reply)
          /\ tel'.tel_flipping
          /\ ~tel'.tel_slewing
          /\ tel'.flip_starttime = now
          /\ ters_response(tel', <<"TERS">>, now).ret = <<"09", "---">>]_vars

\* ------------------------------------------------------- automatic dome

\* The angle between the telescope azimuth and the dome position.
DomeOffset(t) == Abs(t.az - t.dome_position)

\* The dome is in automatic mode under a stopped telescope, whose azimuth
\* is fixed, and the move it is making toward that azimuth has run for its
\* whole duration.
AutoMoveElapsed(t, now_) ==
    /\ t.tel_stopped
    /\ t.dome_auto
    /\ t.dome_moving
    /\ ~IsNone(t.dome_move_time)
    /\ Val(t.dome_move_time) > 0
    /\ ~IsNone(t.loaded_parameters["old_dome_pos"])
    /\ ~IsNone(t.loaded_parameters["dome_delta"])
    /\ (Val(t.loaded_parameters["old_dome_pos"])
          + Val(t.loaded_parameters["dome_delta"])) % Deg(360) = t.az
    /\ now_ - t.dome_move_starttime >= Val(t.dome_move_time)

\* C29: with the dome in automatic mode and the telescope azimuth fixed, a
\* DORA that arrives once the duration of the automatic move has passed
\* reports a position within MAX_AUTO_DOME_OFFSET of the azimuth, the dome
\* no longer moving and its state back at auto.
C29_AutoDomeArrives ==
    [][(Served(<<"DORA">>) /\ AutoMoveElapsed(tel, now)) =>
          /\ last'.reply = <<DomeStr(tel'.dome_position), "---">>
          /\ DomeOffset(tel') <= Deg(MAX_AUTO_DOME_OFFSET)
          /\ ~tel'.dome_moving
          /\ tel'.dome_state = "03"]_vars

\* --------------------------------------------------------- parking the dome

\* The dome stands stopped at the parked position, nothing pending.
DomeParked(t) ==
    /\ t.dome_stopped
    /\ ~t.dome_parking
    /\ ~t.dome_moving
    /\ t.dome_position = Deg(DOME_PARKED_POSITION)
    /\ t.dome_state = "00"

\* The park move of the dome has run for its whole duration.
ParkElapsed(t, now_) ==
    /\ t.dome_parking
    /\ t.dome_moving
    /\ ~IsNone(t.dome_move_time)
    /\ now_ - t.dome_move_starttime >= Val(t.dome_move_time)

\* C30: a DOPA is acknowledged from every dome state, the parked position
\* included, and leaves the dome parking or already parked; a DORS that
\* arrives once the duration of the park move has passed reports stopped,
\* the dome at DOME_PARKED_POSITION with the parking flag cleared.
C30_ParkFromAnywhere ==
    [][/\ (Served(<<"DOPA">>) /\ tel.tel_state # "00") =>
             /\ last'.reply = ACK
             /\ \/ tel'.dome_parking /\ tel'.dome_state = "08"
                \/ DomeParked(tel')
       /\ (Served(<<"DORS">>) /\ ParkElapsed(tel, now)) =>
             /\ last'.reply = <<"00", "---">>
             /\ DomeParked(tel')]_vars

\* ------------------------------------------------------ dome state codes

\* One client sends every dome command the server registers, and the
\* pointing commands; the dome is initialised at most once.  The clock
\* advances by half a minute, less than the 45 s of the first automatic
\* move.
DomeCodeFrames ==
    {<<"DOAM">>, <<"DOPA">>, <<"DOST">>, <<"DOIN">>, <<"DORA">>, <<"DORS">>,
     <<"GLLG">>, TargetA1, <<"TGRA">>}
DomeCodeSteps == {30}

NextDomeCode ==
    \/ Accept(1, "ascol")
    \/ \E f \in DomeCodeFrames :
          /\ f = <<"DOIN">> => tel.dome_init_starttime = 0
          /\ Serve(1, f)
    \/ \E d \in DomeCodeSteps : Tick(d)

SpecDomeCode == Init /\ [][NextDomeCode]_vars

\* The dome state codes of _update_dome_state: stopped, auto, moving
\* negative/positive in automatic mode, in manual mode, and parking.
DomeStateCodes == {"00", "03", "04", "05", "06", "07", "08"}

\* C31: every DORS is answered with one of the defined dome state codes,
\* never with an error.
C31_DomeStateDefined ==
    (LastAscol /\ last.frame = <<"DORS">>) =>
        /\ ~IsErr(last.reply)
        /\ last.reply[1] \in DomeStateCodes

\* The same, for a dome that is not held by a move of zero duration.
DomeStateDefinedUnlessZero ==
    (LastAscol /\ last.frame = <<"DORS">>
       /\ ~(tel.dome_moving /\ tel.dome_move_time = Some(0))) =>
        /\ ~IsErr(last.reply)
        /\ last.reply[1] \in DomeStateCodes

\* ----------------------------------------------- instrument readiness query

\* C32: the readiness query of the grism wheel is answered "n" while less
\* than WHEEL_TIME has passed since the wheel's last move command and "y"
\* otherwise, never with the error token.
C32_ReadyQuery ==
    (LastDfosc /\ last.frame = <<"g">>) =>
        /\ last.reply # DFOSC_ERR
        /\ last.reply = IF DfoscInWindow(dfosc, "grism", perf_counter(now))
                        THEN <<"n", "\n">>
                        ELSE <<"y", "\n">>

\* ------------------------------------------------- whole-word mnemonics

\* str.upper(), character by character: the spelling a client may send.
UpperChar(c) == IF InSeq(LowerCase, c) THEN UpperCase[IndexOf(LowerCase, c)] ELSE c
Upper(str) == [i \in 1..Len(str) |-> UpperChar(str[i])]

\* The key of responders_lookup under which dfosc_callback finds the handler
\* of command, None where the lookup has no such key.
HandlerOf(command) ==
    IF ~Raised(responder_code(command))
       /\ responder_code(command).ret \in dfosc_responders_lookup
    THEN Some(responder_code(command).ret)
    ELSE None

\* C33: the upper-case spelling of each whole-word mnemonic (g, a, f,
\* gidfoc, aidfoc, fidfoc) reaches the same handler as the lower-case
\* spelling and is given the same reply.
C33_CaseInsensitive ==
    \A w \in WholeWords :
        /\ HandlerOf(Upper(w)) = HandlerOf(w)
        /\ dfosc_callback(dfosc, Upper(w), perf_counter(now)).ret
               = dfosc_callback(dfosc, w, perf_counter(now)).ret

\* The replies alone: every spelling of a whole word is answered alike.
WholeWordRepliesAlike ==
    \A w \in WholeWords :
        dfosc_callback(dfosc, Upper(w), perf_counter(now)).ret
            = dfosc_callback(dfosc, w, perf_counter(now)).ret

\* ------------------------------------------------- the line terminator

\* C34: every reply the instrument server writes ends with the line
\* terminator.
C34_Terminated ==
    LastDfosc =>
        /\ Len(last.reply) > 0
        /\ last.reply[Len(last.reply)] = "\n"

\* The replies of handlers that complete do end with the terminator.
CompletedTerminated ==
    (LastDfosc /\ last.reply # DFOSC_ERR) =>
        /\ Len(last.reply) > 0
        /\ last.reply[Len(last.reply)] = "\n"

\* --------------------------------------------------- unrecognised tokens

\* One client sends flap and slit moves with recognised and unrecognised
\* tokens and polls the states; the clock advances by one second or by the
\* transit time of a flap.
TokenFrames ==
    {<<"FCOP", "1">>, <<"FCOP", "2">>, <<"FCRS">>,
     <<"FMOP", "half">>, <<"FMRS">>,
     <<"DOSO", "0">>, <<"DOSO", "2">>, <<"DOSS">>}
TokenSteps == {1, FLAP_TIME}

NextToken ==
    \/ Accept(1, "ascol")
    \/ \E f \in TokenFrames : Serve(1, f)
    \/ \E d \in TokenSteps : Tick(d)

SpecToken == Init /\ [][NextToken]_vars

\* The tokens the flaps and the slit recognise.
MoveTokens == {"open", "1", "close", "0"}

\* The state codes of a flap or of the slit: stopped, opening, closing,
\* open, closed.
MoveStateCodes == {"00", "01", "02", "03", "04"}

\* The stored state of the flaps and of the slit, pending targets included.
MoveFields(t) ==
    <<t.flap_state, t.flap_starttime, t.dome_slit_state,
      t.dome_slit_starttime, t.loaded_parameters>>

\* C35: a flap or slit move with an unrecognised token is answered with an
\* error and leaves the stored state of the device as it was, no pending
\* target retained; every status query returns a state code.
C35_BadTokenRejected ==
    [][/\ \A code \in {"FCOP", "FMOP", "DOSO"} :
          \A tok \in {"2", "half"} :
             Served(<<code, tok>>) =>
                 /\ IsErr(last'.reply)
                 /\ MoveFields(tel') = MoveFields(tel)
       /\ \A code \in {"FCRS", "FMRS", "DOSS"} :
             Served(<<code>>) =>
                 /\ ~IsErr(last'.reply)
                 /\ last'.reply[1] \in MoveStateCodes]_vars

\* --------------------------------------------------- unrecognised pier side

\* A set-pointing command with a pier side that is neither "0" nor "1".
TargetBad == <<"TSRA", 80000, -400000, "2">>

\* One logged-in client loads a pointing with a good or a bad pier side,
\* starts it and polls state and position; the clock advances by one second
\* or by the slew time of the target.
PierFrames ==
    {<<"GLLG">>, TargetA, TargetBad, <<"TGRA">>, <<"TERS">>, <<"TRRD">>}
PierSteps == {1, 10}

NextPier ==
    \/ Accept(1, "ascol")
    \/ \E f \in PierFrames : Serve(1, f)
    \/ \E d \in PierSteps : Tick(d)

SpecPier == Init /\ [][NextPier]_vars

\* The session is logged in on a telescope that is switched on.
InSession(t, now_) ==
    t.tel_state # "00" /\ now_ - t.login_time < LOGIN_TIMEOUT

\* The telescope after a TGRA served at time now_.
AfterTgra(t, now_) == ascol_callback(t, <<"TGRA">>, now_)

\* C36: a TSRA with an unrecognised pier side is answered with an error and
\* loads nothing; where no target was pending before it, a TGRA that follows
\* at once fails with the target-not-set error (ValueError) and leaves the
\* flags, timers and position of the telescope as they were.
C36_BadPierRejected ==
    [][(Served(TargetBad) /\ InSession(tel, now)) =>
          /\ IsErr(last'.reply)
          /\ tel'.loaded_parameters = tel.loaded_parameters
          /\ NoTarget("TGRA", tel) =>
                /\ AfterTgra(tel', now).ret = ErrClass("ValueError")
                /\ \A f \in GoFields("TGRA") :
                      AfterTgra(tel', now).t[f] = tel[f]]_vars

\* ------------------------------------------- queries between set and go

\* C37: while an acknowledged FOSA with target p waits for its go command,
\* a state or position query leaves the target pending, and the go command
\* that follows moves the focuser to p, which FORA then reports.
C37_QueriesKeepTarget ==
    [][~IsNone(client.fosa) =>
          /\ (Served(<<"FORS">>) \/ Served(<<"FORA">>)) =>
                tel'.loaded_parameters["focus_position"]
                    = Some(Val(client.fosa).p)
          /\ (Served(<<"FOGA">>) \/ Served(<<"FOGR">>)) =>
                /\ tel'.focus_pos = Some(Val(client.fosa).p)
                /\ fora_response(tel', <<"FORA">>, now).ret
                       = <<Format02f(Val(client.fosa).p)>>]_vars

\* The state and position queries of the filter wheels leave the loaded
\* wheel targets as they are.
WheelQueriesKeepTarget ==
    [][\A code \in {"WARS", "WARP", "WBRS", "WBRP"} :
          Served(<<code>>) =>
              /\ tel'.loaded_parameters["wheel_a_pos"]
                     = tel.loaded_parameters["wheel_a_pos"]
              /\ tel'.loaded_parameters["wheel_b_pos"]
                     = tel.loaded_parameters["wheel_b_pos"]]_vars

\* ------------------------------------------------ replies of quiet handlers

\* The command frame is known, passes the power and login gates on
\* telescope t, and its handler returns without raising.
Completes(frame, t, now_) ==
    /\ InSession(t, now_) \/ (t.tel_state # "00" /\ frame[1] \notin REQUIRE_LOGIN)
    /\ frame[1] \in responders_lookup
    /\ ~Raised(responder(frame[1], t, frame, now_))

\* C38: a focus command that is known, passes the gates and whose handler
\* returns without raising is never answered with an error token; FOGA and
\* FOGR, which return no value, are among them.
C38_NoErrorOnSuccess ==
    [][\A f \in FocusFrames :
          (Served(f) /\ Completes(f, tel, now)) => ~IsErr(last'.reply)]_vars

\* The same for the handlers that return a value.
ValuedNoError ==
    [][\A f \in FocusFrames \ {<<"FOGA">>, <<"FOGR">>} :
          (Served(f) /\ Completes(f, tel, now)) => ~IsErr(last'.reply)]_vars

\* --------------------------------------------------- rejected exposures

\* The request handled was an expose that was sent a 400.
ExposeRejected(h) ==
    /\ UnderApi(h.req)
    /\ Cmd(h.req) = "expose"
    /\ \E i \in 1..Len(h.responses) : h.responses[i] = 400

\* C39: an expose request answered with 400 leaves the observatory as it
\* was: the shutter position of the telescope, and the loaded parameters,
\* the exposure-started flag and the state of the camera.
C39_RejectedExposeNoEffect ==
    [][ExposeRejected(http') =>
          /\ tel'.shutter_pos = tel.shutter_pos
          /\ ccd3'.loaded_parameters = ccd3.loaded_parameters
          /\ ccd3'.exposure_started = ccd3.exposure_started
          /\ ccd3'.ccd_state = ccd3.ccd_state]_vars

\* The camera alone, for the expose requests that lack fe.
RejectedNoFeKeepsCamera ==
    [][(ExposeRejected(http') /\ ExposeNoFe(http'.req)) => ccd3' = ccd3]_vars

\* ------------------------------------------------- concurrent status queries

\* A move of the dome is pending whose duration has passed: what
\* _update_dome_position reads on its way to the "finished moving" branch.
DomeSettling(t, now_) ==
    /\ ~IsNone(t.loaded_parameters["dome_delta"])
    /\ ~IsNone(t.loaded_parameters["old_dome_pos"])
    /\ t.dome_moving
    /\ ~IsNone(t.dome_move_time)
    /\ Val(t.dome_move_time) > 0
    /\ now_ - t.dome_move_starttime >= Val(t.dome_move_time)

\* A thread serving DORS runs _update_dome_position up to the test of f and
\* finds the move finished: it has read dome_delta and old_dome_pos and
\* popped nothing yet.
ReadDome(c) ==
    /\ conns[c].status = "open"
    /\ conns[c].pc = "call"
    /\ conns[c].server = "ascol"
    /\ conns[c].msg = <<"DORS">>
    /\ tel.tel_state # "00"
    /\ DomeSettling(tel, now)
    /\ conns' = [conns EXCEPT ![c].pc = "settle"]
    /\ UNCHANGED <<now, ticks, tel, dfosc, ccd3, http, last, client>>

\* The rest of the query, from self.loaded_parameters.pop("old_dome_pos"):
\* KeyError when another thread has popped the key since this one read it,
\* which the try/except of ascol_callback answers with the error token.
SettleResult(t, now_) ==
    IF IsNone(t.loaded_parameters["old_dome_pos"])
    THEN Ret(t, ErrClass("KeyError"))
    ELSE ascol_callback(t, <<"DORS">>, now_)

SettleWith(c, r) ==
    /\ tel' = r.t
    /\ conns' = [conns EXCEPT ![c].pc = "send", ![c].reply = r.ret,
                              ![c].failed = @ \/ IsErr(r.ret)]

SettleDome(c) ==
    /\ conns[c].status = "open"
    /\ conns[c].pc = "settle"
    /\ SettleWith(c, SettleResult(tel, now))
    /\ UNCHANGED <<now, ticks, dfosc, ccd3, http, last, client>>

\* Two clients put the dome in automatic mode, start its move with DORA and
\* poll its state; the threads of two DORS queries that find the move
\* finished interleave between their reads and their pops.  The clock
\* advances, by half a minute or a minute, while no thread is inside a
\* command.
SettleFrames == {<<"DOAM">>, <<"DORA">>}
SettleSteps == {30, 60}

NextSettle ==
    \/ \E c \in Conns : Accept(c, "ascol")
    \/ \E c \in Conns : \E f \in SettleFrames : Quiet /\ Serve(c, f)
    \/ \E c \in Conns : Recv(c, <<"DORS">>)
    \/ \E c \in Conns : ReadDome(c)
    \/ \E c \in Conns : ~DomeSettling(tel, now) /\ Call(c)
    \/ \E c \in Conns : SettleDome(c)
    \/ \E c \in Conns : Send(c)
    \/ \E d \in SettleSteps : Quiet /\ Tick(d)

SpecSettle == Init /\ [][NextSettle]_vars

\* C40: each of two DORS queries that arrive as the dome's move completes
\* is answered with the settled state of the dome, none with an error for a
\* pending target the other query has cleared.
C40_ConcurrentQueries ==
    (LastAscol /\ last.frame = <<"DORS">>) =>
        /\ ~IsErr(last.reply)
        /\ ~tel.dome_moving => last.reply = <<tel.dome_state, "---">>

\* With one connection only, every DORS of these runs is answered with the
\* state of the dome.
AloneAnswered ==
    (LastAscol /\ last.frame = <<"DORS">> /\ conns[2].status = "new") =>
        /\ ~IsErr(last.reply)
        /\ ~tel.dome_moving => last.reply = <<tel.dome_state, "---">>

====
